---------------------------- MODULE Spec2Model ----------------------------
(***************************************************************************)
(* A model of fs3ds: the partition windows (src/src/partition.rs), the      *)
(* IVFC reader (src/src/ivfc.rs) and the VFS adapter (src/src/ivfc_vfs.rs). *)
(*                                                                         *)
(* Byte sources.  The generic `T: Read + Seek` under a window is a cursor   *)
(* over SrcLen bytes; the byte stored at offset o is o itself, so that a    *)
(* delivered byte names the offset it came from.  A read at or past the    *)
(* end of the source returns 0 bytes, read_exact fails there with          *)
(* UnexpectedEof, and a seek to any position succeeds.                     *)
(*                                                                         *)
(* Images.  Under the IVFC reader the source holds a well-formed RomFS      *)
(* image (img): the level-3 header, the directory and file tables laid out *)
(* from a tree of at most MaxNodes directories and files, and the file     *)
(* data.  SpecVfs makes the lookups and the walk, SpecList the listings,    *)
(* SpecSurface the VFS calls on any path, SpecFile opens and reads files,  *)
(* SpecWrite makes the write-path calls.  Under the NCSD reader            *)
(* (src/src/ncsd.rs) the source holds an NCSD header given by its fields,  *)
(* cut short at img.len bytes.                                             *)
(*                                                                         *)
(* Integers.  usize/u64/i64 are 64 bits wide in the program; TLC's integers *)
(* are 32 bits wide, so the machine word is scaled down to UsizeMod values  *)
(* and all wrapping arithmetic is done modulo UsizeMod.  `build` is the     *)
(* profile the crate is compiled with: "debug" has overflow checks (an      *)
(* overflowing +, - panics), "release" wraps.  Seeks are drawn so that a   *)
(* position stays within MaxPos of either end of the usize range.  The     *)
(* u32 sector counts of the NCSD header are scaled the same way, to U32Mod *)
(* values.                                                                 *)
(***************************************************************************)
EXTENDS Integers, Sequences, FiniteSets, TLC

\* ------------------------------------------------------------- bounds
SrcLen == 4
MaxStart == 2
MaxLen == 2
MaxBuf == 2
MaxSeek == 2
MaxPos == 12
UsizeMod == 1048576
U32Mod == 65536
MaxNodes == 2
MaxFileLen == 2
MaxDepth == 2

VARIABLES
  img,      \* what the byte source holds: plain bytes, or a RomFS image
  build,    \* "debug" | "release": overflow checks on or off
  file,     \* position of the source owned by the exclusive Partition
  part,     \* the exclusive Partition: [start, pointer, end]
  mfile,    \* position of the source behind the Arc<Mutex<T>>
  wins,     \* the PartitionMutex windows: name -> [start, pointer, end]
  lpos,     \* per window, the position its caller has established
  got,      \* the bytes the reads of the opened file have returned so far
  iter,     \* the FileNameIterator the client holds
  ncsd,     \* the NCSDReader, once NCSDReader::new has returned it
  mutex,    \* the Mutex around the shared source: poisoned or not
  thr,      \* the threads that share the reader: the call each is in
  pipe,     \* get_romfs_vfs: the stage to run, the stages run, its locals
  res,      \* the last call and what it returned
  crashed   \* a call has panicked

vars == <<img, build, file, part, mfile, mutex, thr, wins, lpos, got, iter,
          ncsd, pipe, res, crashed>>


Builds == {"debug", "release"}
Wins == {"A", "B"}

Min(a, b) == IF a <= b THEN a ELSE b
Max(a, b) == IF a >= b THEN a ELSE b
\* The one element of a set.  In The({e(x) : x \in {v}}) the value v is
\* computed once and named x in e.
The(S) == CHOOSE x \in S : TRUE

\* SeekFrom::Start(nb) | SeekFrom::End(nb) | SeekFrom::Current(nb)
SeekFrom ==
  [kind : {"Start"}, nb : 0..MaxSeek]
    \cup [kind : {"End", "Current"}, nb : (0 - MaxSeek)..MaxSeek]

\* ---------------------------------------------------- machine integers
\* a + b on usize: the value, and whether the checked build panics
WrapAdd(a, b) == (a + b) % UsizeMod
Overflows(a, b) == a + b >= UsizeMod

\* x as i64 and back: two's complement on the scaled word
AsI64(x) == IF x >= UsizeMod \div 2 THEN x - UsizeMod ELSE x
AsUsize(x) == x % UsizeMod
I64Overflows(a, b) == a + b >= UsizeMod \div 2 \/ a + b < 0 - (UsizeMod \div 2)

\* the positions the model follows: near 0, or near the top of the usize range
\* (a negative offset cast to usize)
NearEnds(x) == x <= MaxPos \/ x >= UsizeMod - MaxPos

\* ------------------------------------------------------ the RomFS image
\* A RomFS image is given by its tree: directories 1..nd (0 is the root) and
\* files 1..nf, each with the index of its parent directory and its name; the
\* on-disk tables below are laid out from it.  Siblings are chained in index
\* order.  File j holds FileLen(j) bytes.
Names == {"a", "b"}
Bytes == [kind |-> "bytes"]

\* 0xFFFF_FFFF in an offset field: the field is absent
None == 0 - 1

\* let offset_table_3 = 4096 / level_3_header_lenght != 0x28
offset_table_3 == 4096
level_3_header_lenght == 40

\* records on disk: a directory record is 6 u32 and its UTF-16 name padded to
\* 4 bytes (the root's name is empty); a file record is 2 u32, 2 u64, 2 u32
\* and its padded name
NameBytes(name) == 2 * Len(name)
DirStride == 6 * 4 + 4
FileStride == 2 * 4 + 2 * 8 + 2 * 4 + 4
\* in an image of kind "far" the last directory record lies where the
\* directory table reaches the first position a u32 cannot hold
FarOff == U32Mod - (offset_table_3 + level_3_header_lenght + 4)
DirOff(i) ==
  IF i = 0 THEN 0
  ELSE IF img.kind = "far" /\ i = img.nd THEN FarOff
  ELSE 6 * 4 + (i - 1) * DirStride
FileOff(j) == (j - 1) * FileStride

FileLen(j) == MaxFileLen - ((j - 1) % (MaxFileLen + 1))
RECURSIVE DataOff(_)
DataOff(j) == IF j <= 1 THEN 0 ELSE DataOff(j - 1) + FileLen(j - 1)

\* the header of level 3: the three regions follow the header, each table
\* after a one-bucket hash table; the level ends with MaxBuf bytes of padding
dir_metadata_part_offset == offset_table_3 + level_3_header_lenght + 4
file_metadata_part_offset ==
  dir_metadata_part_offset + DirOff(img.nd + 1) + 4
file_data_offset == file_metadata_part_offset + FileOff(img.nf + 1)
RomLen == file_data_offset + DataOff(img.nf + 1) + MaxBuf

SourceLen ==
  IF img.kind = "bytes" THEN SrcLen
  ELSE IF img.kind \in {"ncsd", "ivfc"} THEN img.len
  ELSE IF img.kind = "far" THEN U32Mod + DirStride
  ELSE RomLen

\* the sibling chains
SubDirs(d) == {i \in 1..img.nd : img.dparent[i] = d}
Files(d) == {j \in 1..img.nf : img.fparent[j] = d}
FirstOf(S) == CHOOSE x \in S : \A y \in S : x <= y
DirHead(S) == IF S = {} THEN None ELSE DirOff(FirstOf(S))
FileHead(S) == IF S = {} THEN None ELSE FileOff(FirstOf(S))

\* the record of directory i / of file j as the parsers return it; an
\* Option<String> is <<>> for None and <<s>> for Some(s)
DirRecord(i) ==
  [offset_parent |-> IF i = 0 THEN 0 ELSE DirOff(img.dparent[i]),
   offset_next_sibling |->
     IF i = 0 THEN None
     ELSE DirHead({k \in SubDirs(img.dparent[i]) : k > i}),
   offset_first_subdir |-> DirHead(SubDirs(i)),
   offset_first_file |-> FileHead(Files(i)),
   name |-> IF i = 0 THEN <<>> ELSE <<img.dname[i]>>]
FileRecord(j) ==
  [offset_parent |-> DirOff(img.fparent[j]),
   offset_sibling |-> FileHead({k \in Files(img.fparent[j]) : k > j}),
   offset_file_data |-> DataOff(j),
   lenght_file_data |-> FileLen(j),
   name |-> img.fname[j]]

\* DirectoryMetadata::new(file, is_root) with the source at fpos: the record
\* and the position after the fields read
DirectoryMetadata_new(fpos, is_root) ==
  LET i == CHOOSE k \in 0..img.nd : dir_metadata_part_offset + DirOff(k) = fpos
      meta == DirRecord(i)
  IN [meta |-> IF is_root THEN [meta EXCEPT !.name = <<>>] ELSE meta,
      file |-> fpos + (IF is_root THEN 5 * 4
                       ELSE 6 * 4 + NameBytes(img.dname[i]))]
\* FileMetadata::new(file) with the source at fpos
FileMetadata_new(fpos) ==
  LET j == CHOOSE k \in 1..img.nf : file_metadata_part_offset + FileOff(k) = fpos
  IN [meta |-> FileRecord(j),
      file |-> fpos + 2 * 4 + 2 * 8 + 2 * 4 + NameBytes(img.fname[j])]

\* IVFCReader::new: the root record, parsed at the base of the directory table
first_dir_metadata == DirectoryMetadata_new(dir_metadata_part_offset, TRUE).meta

\* ------------------------------------------------------ ivfc.rs: lookups
\* The Mutex<T> around the source: self.file.lock() is Err once a thread has
\* panicked while it held the guard.
Unlocked == [poisoned |-> FALSE, holder |-> "-"]
\* a Mutex that poisoning does not affect
lock_never_err == FALSE
lock_is_err == mutex.poisoned

\* A lookup's outcome: kind "Dir" | "File" with the record, or "Err" with the
\* error and what it wraps; file is where the lookup leaves the source.
NoMeta == [name |-> <<>>]
Found(kind, meta, fpos) ==
  [kind |-> kind, meta |-> meta, err |-> "", cause |-> "", file |-> fpos]
Failed(err, cause, fpos) ==
  [kind |-> "Err", meta |-> NoMeta, err |-> err, cause |-> cause, file |-> fpos]

\* get_child, the file chain (lines 360-384)
RECURSIVE file_chain(_, _)
file_chain(actual_file, path) ==
  IF actual_file.meta.name = path
    THEN Found("File", actual_file.meta, actual_file.file)
  ELSE IF actual_file.meta.offset_sibling = None
    THEN Failed("FileNotFound", "", actual_file.file)
  ELSE file_chain(FileMetadata_new(actual_file.meta.offset_sibling
                                     + file_metadata_part_offset), path)

get_child_file(dir, path, fpos) ==
  IF dir.offset_first_file = None THEN Failed("FileNotFound", "", fpos)
  ELSE file_chain(FileMetadata_new(dir.offset_first_file
                                     + file_metadata_part_offset), path)

\* get_child, the subdirectory chain (lines 345-359)
RECURSIVE subdir_chain(_, _, _)
subdir_chain(dir, actual_subdir, path) ==
  IF actual_subdir.meta.name = <<path>>
    THEN Found("Dir", actual_subdir.meta, actual_subdir.file)
  ELSE IF actual_subdir.meta.offset_next_sibling = None
    THEN get_child_file(dir, path, actual_subdir.file)
  ELSE subdir_chain(dir,
                    DirectoryMetadata_new(actual_subdir.meta.offset_next_sibling
                                            + dir_metadata_part_offset, FALSE),
                    path)

\* IVFCReader::get_child(dir, path), the source at fpos when it is called
get_child(dir, path, fpos) ==
  IF lock_is_err THEN Failed("Poisoned", "", fpos)
  ELSE IF dir.offset_first_subdir = None THEN Failed("DirNotFound", "", fpos)
  ELSE subdir_chain(dir,
                    DirectoryMetadata_new(dir.offset_first_subdir
                                            + dir_metadata_part_offset, FALSE),
                    path)

\* What a listing gives: the names pushed, and where the source is left; or
\* the error, with the names as they were.
Listed(names, fpos) ==
  [kind |-> "Ok", err |-> "", names |-> names, file |-> fpos]
NotListed(err, names, fpos) ==
  [kind |-> "Err", err |-> err, names |-> names, file |-> fpos]

RECURSIVE list_file_loop(_, _)
list_file_loop(actual_file_metadata, childs) ==
  LET pushed == Append(childs, actual_file_metadata.meta.name)
  IN IF actual_file_metadata.meta.offset_sibling = None
       THEN Listed(pushed, actual_file_metadata.file)
     ELSE list_file_loop(
            FileMetadata_new(actual_file_metadata.meta.offset_sibling
                               + file_metadata_part_offset), pushed)

\* IVFCReader::list_file_child(dir, childs)
list_file_child(dir, childs, fpos) ==
  IF lock_is_err THEN NotListed("Poisoned", childs, fpos)
  ELSE IF dir.offset_first_file = None THEN Listed(childs, fpos)
  ELSE list_file_loop(FileMetadata_new(dir.offset_first_file
                                         + file_metadata_part_offset), childs)

RECURSIVE list_dir_loop(_, _)
list_dir_loop(actual_dir_metadata, childs) ==
  LET pushed == Append(childs, actual_dir_metadata.meta.name[1])
  IN IF actual_dir_metadata.meta.offset_next_sibling = None
       THEN Listed(pushed, actual_dir_metadata.file)
     ELSE list_dir_loop(
            DirectoryMetadata_new(actual_dir_metadata.meta.offset_next_sibling
                                    + dir_metadata_part_offset, FALSE), pushed)

\* IVFCReader::list_dir_child(dir, childs)
list_dir_child(dir, childs, fpos) ==
  IF lock_is_err THEN NotListed("Poisoned", childs, fpos)
  ELSE IF dir.offset_first_subdir = None THEN Listed(childs, fpos)
  ELSE list_dir_loop(DirectoryMetadata_new(dir.offset_first_subdir
                                             + dir_metadata_part_offset, FALSE),
                     childs)

\* list_child as it would be without the subdirectory chain
list_child_files_only(dir, fpos) == list_file_child(dir, <<>>, fpos)

\* list_child as it would be with the subdirectories listed first
list_child_dirs_first(dir, fpos) ==
  The({IF dirs.kind = "Err" THEN dirs
       ELSE list_file_child(dir, dirs.names, dirs.file) :
       dirs \in {list_dir_child(dir, <<>>, fpos)}})

\* IVFCReader::list_child(dir): the files, then the subdirectories
list_child(dir, fpos) ==
  The({IF files.kind = "Err" THEN files
       ELSE list_dir_child(dir, files.names, files.file) :
       files \in {list_file_child(dir, <<>>, fpos)}})

\* IVFCReader::get_file_real_offset(file)
get_file_real_offset(meta) == meta.offset_file_data + file_data_offset

\* ------------------------------------------------------ the byte source
Content(o) == o
Avail(pos) == Max(0, SourceLen - pos)
\* Read::read on the source: up to n bytes from pos
SrcRead(pos, n) ==
  LET k == Min(n, Avail(pos))
  IN [n |-> k, pos |-> pos + k, data |-> [i \in 1..k |-> Content(pos + i - 1)]]

\* ------------------------------------------------- partition.rs: reads
\* What a read or a seek leaves behind: the source's position, the window's
\* pointer, and the call's outcome (kind "Ok" with val and the bytes put in
\* buf, "Err" with the io::ErrorKind, or "Panic").
Out(fpos, pointer, kind, val, data, err) ==
  [file |-> fpos, pointer |-> pointer, kind |-> kind, val |-> val,
   data |-> data, err |-> err]

\* The byte-by-byte loop `for loop_nb in 0..loop_total_nb` of partition_read
\* (the same text as the loop of Partition::read, lines 94-106): read_exact of
\* one byte, on failure the recovery seek to start + pointer and the error;
\* else pointer += 1 and buf[loop_nb] = byte, which panics past the buffer.
RECURSIVE read_loop(_, _, _, _, _, _, _, _)
read_loop(bld, loop_nb, loop_total_nb, buf_len, fpos, start, pointer, data) ==
  IF loop_nb >= loop_total_nb
    THEN Out(fpos, pointer, "Ok", loop_total_nb, data, "")
  ELSE IF Avail(fpos) = 0
    THEN IF bld = "debug" /\ Overflows(start, pointer)
           THEN Out(fpos, pointer, "Panic", 0 - 1, data, "add overflow")
           ELSE Out(WrapAdd(start, pointer), pointer, "Err", 0 - 1, data,
                    "UnexpectedEof")
  ELSE IF bld = "debug" /\ Overflows(pointer, 1)
    THEN Out(fpos + 1, pointer, "Panic", 0 - 1, data, "add overflow")
  ELSE IF loop_nb >= buf_len
    THEN Out(fpos + 1, WrapAdd(pointer, 1), "Panic", 0 - 1, data,
             "index out of bounds")
  ELSE read_loop(bld, loop_nb + 1, loop_total_nb, buf_len, fpos + 1, start,
                 WrapAdd(pointer, 1), Append(data, Content(fpos)))

\* fn partition_read(buf, file, start, end, pointer) -> (pointer, result)
partition_read(bld, buf_len, fpos, start, end, pointer) ==
  IF bld = "debug" /\ Overflows(buf_len, pointer)
    THEN Out(fpos, pointer, "Panic", 0 - 1, <<>>, "add overflow")
  ELSE
    LET end_byte_absolute == WrapAdd(buf_len, pointer) IN
    IF end_byte_absolute >= end
      THEN IF bld = "debug" /\ end < pointer
             THEN Out(fpos, pointer, "Panic", 0 - 1, <<>>, "subtract overflow")
             ELSE read_loop(bld, 0, (end - pointer) % UsizeMod, buf_len, fpos,
                            start, pointer, <<>>)
      ELSE LET r == SrcRead(fpos, buf_len)
           IN Out(r.pos, pointer, "Ok", r.n, r.data, "")

\* Partition::read as it would be without the test against end: every read
\* is the source's
Partition_read_unclamped(bld, buf_len, fpos, start, end, pointer) ==
  LET r == SrcRead(fpos, buf_len)
  IN Out(r.pos, WrapAdd(pointer, r.n), "Ok", r.n, r.data, "")

\* impl Read for Partition: fn read(&mut self, buf)
Partition_read(bld, buf_len, fpos, start, end, pointer) ==
  IF bld = "debug" /\ Overflows(pointer, buf_len)
    THEN Out(fpos, pointer, "Panic", 0 - 1, <<>>, "add overflow")
  ELSE
    LET end_byte_absolute == WrapAdd(pointer, buf_len) IN
    IF end_byte_absolute >= end
      THEN IF bld = "debug" /\ end < pointer
             THEN Out(fpos, pointer, "Panic", 0 - 1, <<>>, "subtract overflow")
             ELSE read_loop(bld, 0, (end - pointer) % UsizeMod, buf_len, fpos,
                            start, pointer, <<>>)
      ELSE LET r == SrcRead(fpos, buf_len)
           IN Out(r.pos, end_byte_absolute, "Ok", r.n, r.data, "")

\* ------------------------------------------------- partition.rs: seeks
\* new_real_pos with the Start arm `nb as usize` in place of
\* `start + nb as usize`
new_real_pos_from_zero(bld, start, end, cur, target) ==
  CASE target.kind = "Start" -> target.nb
    [] target.kind = "End" ->
         IF bld = "debug" /\ I64Overflows(AsI64(end), target.nb)
           THEN 0 - 1 ELSE AsUsize(AsI64(end) + target.nb)
    [] target.kind = "Current" ->
         IF bld = "debug"
              /\ (Overflows(start, cur)
                    \/ I64Overflows(AsI64(WrapAdd(start, cur)), target.nb))
           THEN 0 - 1 ELSE AsUsize(AsI64(WrapAdd(start, cur)) + target.nb)

\* `let new_real_pos = match target {...}`: the position, or "panic" when an
\* addition overflows in the checked build.  `cur` is what the Current arm
\* adds the offset to.
new_real_pos(bld, start, end, cur, target) ==
  CASE target.kind = "Start" ->
         IF bld = "debug" /\ Overflows(start, target.nb)
           THEN 0 - 1 ELSE WrapAdd(start, target.nb)
    [] target.kind = "End" ->
         IF bld = "debug" /\ I64Overflows(AsI64(end), target.nb)
           THEN 0 - 1 ELSE AsUsize(AsI64(end) + target.nb)
    [] target.kind = "Current" ->
         IF bld = "debug"
              /\ (Overflows(start, cur)
                    \/ I64Overflows(AsI64(WrapAdd(start, cur)), target.nb))
           THEN 0 - 1 ELSE AsUsize(AsI64(WrapAdd(start, cur)) + target.nb)

\* fn partition_seek(file, start, end, pointer, target) -> (pointer, result)
partition_seek(bld, fpos, start, end, pointer, target) ==
  LET new == new_real_pos(bld, start, end, pointer, target) IN
  IF new < 0
    THEN Out(fpos, pointer, "Panic", 0 - 1, <<>>, "add overflow")
  ELSE IF new < start
    THEN Out(fpos, pointer, "Err", 0 - 1, <<>>, "InvalidInput")
  ELSE Out(new, pointer, "Ok", new - start, <<>>, "")

\* impl Seek for Partition: fn seek(&mut self, pos)
Partition_seek(bld, fpos, start, end, pointer, pos) ==
  LET new == new_real_pos(bld, start, end, pointer, pos) IN
  IF new < 0
    THEN Out(fpos, pointer, "Panic", 0 - 1, <<>>, "add overflow")
  ELSE IF new < start
    THEN Out(fpos, pointer, "Err", 0 - 1, <<>>, "InvalidInput")
  ELSE Out(new, new, "Ok", new - start, <<>>, "")

\* Partition::new / PartitionMutex::new: the fields, before the seek(Start(0))
\* that ends construction
Window(start, lenght) == [start |-> start, pointer |-> start, end |-> start + lenght]

\* ------------------------------------------------------------ the calls
Buf(n) == [kind |-> "Buf", nb |-> n]
NoOut == Out(0, 0, "None", 0 - 1, <<>>, "")
NoCall == [op |-> "new", who |-> "-", arg |-> Buf(0), before |-> 0,
           after |-> 0 - 1, out |-> NoOut, twin |-> NoOut]
\* `after` is k when the call before this one, on the same window, was a
\* successful seek(SeekFrom::Start(k)), and -1 otherwise.
AfterStart(last, who) ==
  IF /\ last.who = who /\ last.op = "seek" /\ last.arg.kind = "Start"
     /\ last.out.kind = "Ok" /\ last.twin.kind \in {"None", "Ok"}
    THEN last.arg.nb ELSE 0 - 1
Call(op, who, arg, before, out, twin) ==
  [op |-> op, who |-> who, arg |-> arg, before |-> before,
   after |-> AfterStart(res, who), out |-> out, twin |-> twin]

\* What the caller of a window takes its position to be after a call: a
\* successful seek returns the offset in the window, a successful read
\* returns the number of bytes it advanced by.
\* Every position past end + 1 is recorded as end + 1 (a read at any position
\* at or past end has nothing left to return), which keeps lpos finite.
Established(w, before, op, o) ==
  IF o.kind # "Ok" THEN before
  ELSE IF op = "seek" THEN Min(w.start + o.val, w.end + 1)
  ELSE Min(before + o.val, w.end + 1)

\* no file is opened
NoSession == [open |-> FALSE, meta |-> NoMeta, bytes |-> <<>>, alone |-> TRUE]
\* no NCSDReader exists
NoNcsd == [made |-> FALSE, size |-> 0, partition_crypt_type |-> <<>>,
           partitions |-> <<>>]
\* get_romfs_vfs has not begun: its first stage is to run, no window is made
NoPipe == [pc |-> "NCSDReader::new", ran |-> <<>>, ws |-> <<>>,
           romfs |-> [offset |-> 0, lenght |-> 0],
           ret |-> [kind |-> "None", err |-> "", cause |-> ""]]
\* no thread is followed call by call
NoThreads == <<>>
\* no iterator is held
NoIter == [held |-> FALSE, child_iterator |-> <<>>, child_of |-> <<>>,
           yielded |-> <<>>]

\* The state after construction.  Every specification builds a Partition over
\* (start, lenght) on its own source and the PartitionMutex A over the same
\* (start, lenght) on the mutex-protected source; with_B, the window B that
\* follows A is then built on that same shared source.
Constructed(with_B) ==
  /\ img = Bytes
  /\ got = NoSession
  /\ iter = NoIter
  /\ ncsd = NoNcsd
  /\ pipe = NoPipe
  /\ mutex = Unlocked
  /\ thr = NoThreads
  /\ build \in Builds
  /\ \E start \in 0..MaxStart, lenght \in 0..MaxLen :
       LET p == Window(start, lenght)
           a == Window(start, lenght)
           b == Window(start + lenght, lenght)
           \* result.seek(SeekFrom::Start(0))
           sp == Partition_seek(build, 0, p.start, p.end, p.pointer,
                                [kind |-> "Start", nb |-> 0])
           sa == partition_seek(build, 0, a.start, a.end, a.pointer,
                                [kind |-> "Start", nb |-> 0])
           sb == partition_seek(build, sa.file, b.start, b.end, b.pointer,
                                [kind |-> "Start", nb |-> 0])
       IN /\ part = [p EXCEPT !.pointer = sp.pointer]
          /\ file = sp.file
          /\ wins = [w \in Wins |->
                       IF w = "A" THEN [a EXCEPT !.pointer = sa.pointer]
                                  ELSE [b EXCEPT !.pointer = sb.pointer]]
          /\ mfile = IF with_B THEN sb.file ELSE sa.file
          /\ lpos = [w \in {"P", "A"} |-> start]
  /\ res = NoCall
  /\ crashed = FALSE

Init == Constructed(TRUE)
InitPair == Constructed(FALSE)

\* Partition::seek(pos) on the exclusive window
SeekP(pos) ==
  /\ ~crashed
  /\ \E o \in {Partition_seek(build, file, part.start, part.end,
                               part.pointer, pos)} :
        /\ NearEnds(o.file) /\ NearEnds(o.pointer)
        /\ file' = o.file
        /\ part' = [part EXCEPT !.pointer = o.pointer]
        /\ res' = Call("seek", "P", pos, lpos["P"], o, NoOut)
        /\ lpos' = [lpos EXCEPT !["P"] = Established(part, @, "seek", o)]
        /\ crashed' = (o.kind = "Panic")
  /\ UNCHANGED <<img, thr, mutex, pipe, ncsd, iter, got, build, mfile, wins>>

\* Partition::read(buf) on the exclusive window, buf.len() = n
ReadP(n) ==
  /\ ~crashed
  /\ \E o \in {Partition_read(build, n, file, part.start, part.end,
                               part.pointer)} :
        /\ file' = o.file
        /\ part' = [part EXCEPT !.pointer = o.pointer]
        /\ res' = Call("read", "P", Buf(n), lpos["P"], o, NoOut)
        /\ lpos' = [lpos EXCEPT !["P"] = Established(part, @, "read", o)]
        /\ crashed' = (o.kind = "Panic")
  /\ UNCHANGED <<img, thr, mutex, pipe, ncsd, iter, got, build, mfile, wins>>

\* The caller's position is followed for A; B is the other user of the source.
Follow(w, op, o) ==
  IF w = "A" THEN [lpos EXCEPT !["A"] = Established(wins["A"], @, op, o)]
  ELSE lpos

\* PartitionMutex::seek(target) on window w: lock, partition_seek,
\* self.pointer = result.0, unlock
PartitionMutex_seek(w, target) ==
  \E o \in {IF lock_is_err
             THEN Out(mfile, wins[w].pointer, "Err", 0 - 1, <<>>, "Other")
           ELSE partition_seek(build, mfile, wins[w].start, wins[w].end,
                               wins[w].pointer, target)} :
     /\ mfile' = o.file
     /\ wins' = [wins EXCEPT ![w].pointer = o.pointer]
     /\ res' = Call("seek", w, target, IF w = "A" THEN lpos["A"] ELSE 0, o, NoOut)
     /\ lpos' = Follow(w, "seek", o)
     /\ crashed' = (o.kind = "Panic")

\* PartitionMutex::read(buf) on window w: lock, partition_read,
\* self.pointer = result.0, unlock
PartitionMutex_read(w, n) ==
  \E o \in {IF lock_is_err
             THEN Out(mfile, wins[w].pointer, "Err", 0 - 1, <<>>, "Other")
           ELSE partition_read(build, n, mfile, wins[w].start, wins[w].end,
                               wins[w].pointer)} :
     /\ mfile' = o.file
     /\ wins' = [wins EXCEPT ![w].pointer = o.pointer]
     /\ res' = Call("read", w, Buf(n), IF w = "A" THEN lpos["A"] ELSE 0, o, NoOut)
     /\ lpos' = Follow(w, "read", o)
     /\ crashed' = (o.kind = "Panic")

SeekM(w, target) ==
  /\ ~crashed
  /\ PartitionMutex_seek(w, target)
  /\ NearEnds(mfile')
  /\ UNCHANGED <<img, thr, mutex, pipe, ncsd, iter, got, build, file, part>>

ReadM(w, n) ==
  /\ ~crashed
  /\ PartitionMutex_read(w, n)
  /\ UNCHANGED <<img, thr, mutex, pipe, ncsd, iter, got, build, file, part>>

\* the same seek on the Partition and on the PartitionMutex A
SeekPair(pos) ==
  /\ ~crashed
  /\ \E o \in {Partition_seek(build, file, part.start, part.end,
                               part.pointer, pos)},
        m \in {partition_seek(build, mfile, wins["A"].start, wins["A"].end,
                              wins["A"].pointer, pos)} :
        /\ NearEnds(o.file) /\ NearEnds(o.pointer) /\ NearEnds(m.file)
        /\ file' = o.file
        /\ part' = [part EXCEPT !.pointer = o.pointer]
        /\ mfile' = m.file
        /\ wins' = [wins EXCEPT !["A"].pointer = m.pointer]
        /\ res' = Call("seek", "pair", pos, lpos["P"], o, m)
        /\ lpos' = [lpos EXCEPT !["P"] = Established(part, @, "seek", o),
                                !["A"] = Established(wins["A"], @, "seek", m)]
        /\ crashed' = (o.kind = "Panic" \/ m.kind = "Panic")
  /\ UNCHANGED <<img, thr, mutex, pipe, ncsd, iter, got, build>>

\* the same read on the Partition and on the PartitionMutex A
ReadPair(n) ==
  /\ ~crashed
  /\ \E o \in {Partition_read(build, n, file, part.start, part.end,
                               part.pointer)},
        m \in {partition_read(build, n, mfile, wins["A"].start, wins["A"].end,
                              wins["A"].pointer)} :
        /\ file' = o.file
        /\ part' = [part EXCEPT !.pointer = o.pointer]
        /\ mfile' = m.file
        /\ wins' = [wins EXCEPT !["A"].pointer = m.pointer]
        /\ res' = Call("read", "pair", Buf(n), lpos["P"], o, m)
        /\ lpos' = [lpos EXCEPT !["P"] = Established(part, @, "read", o),
                                !["A"] = Established(wins["A"], @, "read", m)]
        /\ crashed' = (o.kind = "Panic" \/ m.kind = "Panic")
  /\ UNCHANGED <<img, thr, mutex, pipe, ncsd, iter, got, build>>

\* The exclusive window: any sequence of seek and read calls on a Partition.
Next ==
  \/ \E pos \in SeekFrom : SeekP(pos)
  \/ \E n \in 0..MaxBuf : ReadP(n)

Spec == Init /\ [][Next]_vars

\* A freshly constructed Partition that is only read.
NextRead == \E n \in 0..MaxBuf : ReadP(n)

SpecRead == Init /\ [][NextRead]_vars

\* The shared windows: any interleaving of the calls on A and on B.
NextShared ==
  \/ \E w \in Wins, target \in SeekFrom : SeekM(w, target)
  \/ \E w \in Wins, n \in 0..MaxBuf : ReadM(w, n)

SpecShared == Init /\ [][NextShared]_vars

\* One shared window, A, the only user of the mutex-protected source.
NextSolo ==
  \/ \E target \in SeekFrom : SeekM("A", target)
  \/ \E n \in 0..MaxBuf : ReadM("A", n)

SpecSolo == InitPair /\ [][NextSolo]_vars

\* A Partition and a PartitionMutex, each alone on its source, in lockstep.

NextPair ==
  \/ \E pos \in SeekFrom : SeekPair(pos)
  \/ \E n \in 0..MaxBuf : ReadPair(n)

SpecPair == InitPair /\ [][NextPair]_vars


\* ------------------------------------------------- ivfc_vfs.rs: the VFS
\* A path is the sequence of its components, as PathBuf::iter yields them: an
\* absolute path begins with the component "/".
RECURSIVE PathsUpTo(_)
PathsUpTo(n) ==
  IF n = 0 THEN {<<>>}
  ELSE PathsUpTo(n - 1) \cup {Append(p, c) : p \in PathsUpTo(n - 1), c \in Names}
Paths == PathsUpTo(MaxDepth) \cup {<<"/">> \o p : p \in PathsUpTo(MaxDepth - 1)}

\* the for loop of get_internal_meta
RECURSIVE get_internal_meta_loop(_, _)
get_internal_meta_loop(actual_meta, path) ==
  IF path = <<>> THEN actual_meta
  ELSE IF actual_meta.kind = "Dir"
    THEN The({IF child.kind = "Err"
                THEN Failed("IVFCError", child.err, child.file)
                ELSE get_internal_meta_loop(child, Tail(path)) :
              child \in {get_child(actual_meta.meta, Head(path),
                                   actual_meta.file)}})
  ELSE Failed("TryGetChildFile", "", actual_meta.file)

\* get_internal_meta as it would be if it looked up the last component only
get_internal_meta_last_only(path, fpos) ==
  get_internal_meta_loop(Found("Dir", first_dir_metadata, fpos),
                         IF path = <<>> THEN path ELSE <<path[Len(path)]>>)

\* IVFCVPATH::get_internal_meta
get_internal_meta(path, fpos) ==
  get_internal_meta_loop(Found("Dir", first_dir_metadata, fpos), path)

\* An io::Result of the VFS surface: kind "Ok" | "Err", the io::ErrorKind and
\* the error it carries, and for the call that returns them the metadata, the
\* entries of the directory, or the window and the record it was opened from.
NoWin == [start |-> 0, pointer |-> 0, end |-> 0]
VRet(kind, err, cause, fpos) ==
  [kind |-> kind, err |-> err, cause |-> cause, file |-> fpos,
   is_dir |-> FALSE, len |-> 0, childs |-> <<>>, entries |-> <<>>,
   win |-> NoWin, meta |-> NoMeta]

return_ro_error(fpos) == VRet("Err", "PermissionDenied", "", fpos)

\* PartitionMutex::new(file, start, lenght)
PartitionMutex_new(bld, fpos, start, lenght) ==
  The({[kind |-> o.kind, err |-> o.err, file |-> o.file,
        win |-> [Window(start, lenght) EXCEPT !.pointer = o.pointer]] :
       o \in {IF lock_is_err
                THEN Out(fpos, start, "Err", 0 - 1, <<>>, "Other")
              ELSE partition_seek(bld, fpos, start, start + lenght, start,
                                  [kind |-> "Start", nb |-> 0])}})

\* OpenOptions: no flag, one flag, or all of them
OpenOptions ==
  {opt \in [write : BOOLEAN, create : BOOLEAN, append : BOOLEAN,
            truncate : BOOLEAN] :
     Cardinality({f \in {"write", "create", "append", "truncate"} : opt[f]})
       \in {0, 1, 4}}

\* open_with_options, lines 205-214: the window over the file of file_meta
opened(bld, file_meta) ==
  The({IF value.kind = "Ok"
         THEN [VRet("Ok", "", "", value.file)
                 EXCEPT !.win = value.win, !.meta = file_meta.meta]
         ELSE VRet(value.kind, "Other", value.err, value.file) :
       value \in {PartitionMutex_new(bld, file_meta.file,
                                     get_file_real_offset(file_meta.meta),
                                     file_meta.meta.lenght_file_data)}})

\* open_with_options as it would be without the test of opt.truncate
open_with_options_but_truncate(bld, opt, path, fpos) ==
  IF opt.write \/ opt.create \/ opt.append THEN return_ro_error(fpos)
  ELSE The({IF file_meta.kind = "Dir"
               THEN VRet("Err", "InvalidData", "", file_meta.file)
             ELSE IF file_meta.kind = "Err"
               THEN VRet("Err", "Other", file_meta.err, file_meta.file)
             ELSE opened(bld, file_meta) :
             file_meta \in {get_internal_meta(path, fpos)}})

\* IVFCVPATH::open_with_options(opt)
open_with_options(bld, opt, path, fpos) ==
  IF opt.write \/ opt.create \/ opt.append \/ opt.truncate
    THEN return_ro_error(fpos)
  ELSE The({IF file_meta.kind = "Dir"
               THEN VRet("Err", "InvalidData", "", file_meta.file)
             ELSE IF file_meta.kind = "Err"
               THEN VRet("Err", "Other", file_meta.err, file_meta.file)
             ELSE opened(bld, file_meta) :
             file_meta \in {get_internal_meta(path, fpos)}})

\* IVFCVPATH::resolve(name): PathBuf::push of a plain name
resolve(path, name) == Append(path, name)

\* FileNameIterator::new(childs, child_of); yielded is what it has given
FileNameIterator_new(childs, child_of) ==
  [held |-> TRUE, child_iterator |-> childs, child_of |-> child_of,
   yielded |-> <<>>]

\* FileNameIterator::next: the next name of the vector resolved against
\* child_of, or None when the vector is exhausted
FileNameIterator_next(it) ==
  IF it.child_iterator = <<>>
    THEN [kind |-> "None", item |-> <<>>, iter |-> it]
  ELSE [kind |-> "Some",
        item |-> resolve(it.child_of, Head(it.child_iterator)),
        iter |-> [it EXCEPT !.child_iterator = Tail(@),
                            !.yielded = Append(@, resolve(it.child_of,
                                                          Head(it.child_iterator)))]]

\* the items of an iterator run until it gives None
RECURSIVE collect(_)
collect(it) ==
  The({IF step.kind = "None" THEN step.iter.yielded ELSE collect(step.iter) :
       step \in {FileNameIterator_next(it)}})

\* IVFCVPATH::read_dir: childs is the vector the iterator is made of, entries
\* the paths it yields, in order
read_dir(path, fpos) ==
  The({IF dir_meta.kind = "File"
         THEN VRet("Err", "InvalidData", "", dir_meta.file)
       ELSE IF dir_meta.kind = "Err"
         THEN VRet("Err", "Other", dir_meta.err, dir_meta.file)
       ELSE The({IF child_list.kind = "Err"
                   THEN VRet("Err", "Other", child_list.err, child_list.file)
                 ELSE [VRet("Ok", "", "", child_list.file)
                         EXCEPT !.childs = child_list.names,
                                !.entries = collect(FileNameIterator_new(
                                                      child_list.names, path))] :
                 child_list \in {list_child(dir_meta.meta, dir_meta.file)}}) :
       dir_meta \in {get_internal_meta(path, fpos)}})

\* IVFCVPATH::metadata, with IVFCMeta::is_dir and IVFCMeta::len
metadata(path, fpos) ==
  The({IF meta.kind = "Err" THEN VRet("Err", "NotFound", meta.err, meta.file)
       ELSE [VRet("Ok", "", "", meta.file)
               EXCEPT !.is_dir = (meta.kind = "Dir"),
                      !.len = IF meta.kind = "File"
                                THEN meta.meta.lenght_file_data ELSE 0] :
       meta \in {get_internal_meta(path, fpos)}})

\* IVFCVPATH::exists
exists(path, fpos) == get_internal_meta(path, fpos).kind # "Err"

\* IVFCVPATH::mkdir / rm / rmrf
mkdir(fpos) == return_ro_error(fpos)
rm(fpos) == return_ro_error(fpos)
rmrf(fpos) == return_ro_error(fpos)

\* Write for PartitionMutex
PartitionMutex_write(fpos) == VRet("Err", "PermissionDenied", "", fpos)
PartitionMutex_flush(fpos) == VRet("Ok", "", "", fpos)

\* A client's recursive walk: read_dir on a path, and for each entry it
\* yields, in order, metadata on the entry and the walk of the entry when
\* metadata reports a directory.  visited lists the entries in the order met.
RECURSIVE walk(_, _), walk_entry(_, _), walk_entries(_, _, _)
walk(path, fpos) ==
  The({IF listing.kind # "Ok" THEN [visited |-> <<>>, file |-> listing.file]
       ELSE walk_entries(listing.entries, listing.file, <<>>) :
       listing \in {read_dir(path, fpos)}})
walk_entry(entry, fpos) ==
  The({IF meta.kind = "Ok" /\ meta.is_dir THEN walk(entry, meta.file)
       ELSE [visited |-> <<>>, file |-> meta.file] :
       meta \in {metadata(entry, fpos)}})
walk_entries(entries, fpos, visited) ==
  IF entries = <<>> THEN [visited |-> visited, file |-> fpos]
  ELSE The({walk_entries(Tail(entries), below.file,
                         Append(visited, Head(entries)) \o below.visited) :
            below \in {walk_entry(Head(entries), fpos)}})

\* ------------------------------------------------------- the VFS calls
NoArg == [kind |-> "None"]
NoPre == [mfile |-> 0 - 1]
VCall(op, path, arg, ret, pre) ==
  [op |-> op, who |-> "vfs", path |-> path, arg |-> arg, ret |-> ret,
   pre |-> pre, before |-> 0, after |-> 0 - 1, out |-> NoOut, twin |-> NoOut]
\* the source's position and the windows, as a call found them
Pre == [mfile |-> mfile, wins |-> wins]
\* the opened file is left alone as long as no other call moves the source
Disturbed(fpos) == [got EXCEPT !.alone = @ /\ fpos = mfile]

\* The images: nd directories and nf files, nd + nf <= MaxNodes, each with a
\* parent of lower index (parents in non-decreasing order) and a name.
Images ==
  UNION {
    UNION {
      {[kind |-> "romfs", nd |-> nd, nf |-> nf, dparent |-> dp, dname |-> dn,
        fparent |-> fp, fname |-> fn] :
         dp \in {f \in [1..nd -> 0..nd] :
                   \A i \in 1..nd : f[i] < i /\ (i > 1 => f[i - 1] <= f[i])},
         dn \in [1..nd -> Names],
         fp \in {f \in [1..nf -> 0..nd] :
                   \A j \in 2..nf : f[j - 1] <= f[j]},
         fn \in [1..nf -> Names]} :
      nf \in 0..(MaxNodes - nd)} :
    nd \in 0..MaxNodes}

\* IVFCVFS over an image: IVFCReader::new has parsed the header and the root
\* record; no file is opened.
InitVfs ==
  /\ img \in Images
  /\ build \in Builds
  /\ mfile = DirectoryMetadata_new(dir_metadata_part_offset, TRUE).file
  /\ wins = [w \in {} |-> NoWin]
  /\ got = NoSession
  /\ iter = NoIter
  /\ ncsd = NoNcsd
  /\ pipe = NoPipe
  /\ mutex = Unlocked
  /\ thr = NoThreads
  /\ file = 0
  /\ part = NoWin
  /\ lpos = [w \in {"P", "A"} |-> 0]
  /\ res = NoCall
  /\ crashed = FALSE

\* reader.get_child(dir, name), dir the record of directory d
GetChild(d, name) ==
  /\ ~crashed
  /\ \E ret \in {get_child(DirectoryMetadata_new(dir_metadata_part_offset
                                                    + DirOff(d), d = 0).meta,
                            name, mfile)} :
        /\ mfile' = ret.file
        /\ res' = VCall("get_child", <<d>>, [kind |-> "Name", name |-> name],
                        ret, NoPre)
        /\ got' = Disturbed(ret.file)
  /\ UNCHANGED <<img, thr, mutex, pipe, ncsd, iter, build, file, part, wins, lpos, crashed>>

\* reader.list_child(dir), dir the record of directory d
ListChild(d) ==
  /\ ~crashed
  /\ \E ret \in {list_child(DirectoryMetadata_new(dir_metadata_part_offset
                                                     + DirOff(d), d = 0).meta,
                             mfile)} :
        /\ mfile' = ret.file
        /\ res' = VCall("list_child", <<d>>, NoArg, ret, NoPre)
        /\ got' = Disturbed(ret.file)
  /\ UNCHANGED <<img, thr, mutex, pipe, ncsd, iter, build, file, part, wins, lpos, crashed>>

\* vfs.path(p).get_internal_meta()
GetInternalMeta(p) ==
  /\ ~crashed
  /\ \E ret \in {get_internal_meta(p, mfile)} :
        /\ mfile' = ret.file
        /\ res' = VCall("get_internal_meta", p, NoArg, ret, NoPre)
        /\ got' = Disturbed(ret.file)
  /\ UNCHANGED <<img, thr, mutex, pipe, ncsd, iter, build, file, part, wins, lpos, crashed>>

\* vfs.path(p).metadata()
Metadata(p) ==
  /\ ~crashed
  /\ \E ret \in {metadata(p, mfile)} :
        /\ mfile' = ret.file
        /\ res' = VCall("metadata", p, NoArg, ret, NoPre)
        /\ got' = Disturbed(ret.file)
  /\ UNCHANGED <<img, thr, mutex, pipe, ncsd, iter, build, file, part, wins, lpos, crashed>>

\* vfs.path(p).read_dir(); the iterator a successful call returns replaces
\* the one the client held
ReadDir(p) ==
  /\ ~crashed
  /\ \E ret \in {read_dir(p, mfile)} :
        /\ mfile' = ret.file
        /\ res' = VCall("read_dir", p, NoArg, ret, NoPre)
        /\ got' = Disturbed(ret.file)
        /\ iter' = IF ret.kind = "Ok" THEN FileNameIterator_new(ret.childs, p)
                   ELSE iter
  /\ UNCHANGED <<img, thr, mutex, pipe, ncsd, build, file, part, wins, lpos, crashed>>

\* the client takes the next item of the iterator it holds
IterNext ==
  /\ ~crashed
  /\ iter.held
  /\ \E step \in {FileNameIterator_next(iter)} :
        /\ iter' = step.iter
        /\ res' = VCall("next", iter.child_of, NoArg,
                        [VRet(step.kind, "", "", mfile)
                           EXCEPT !.entries = IF step.kind = "Some"
                                                THEN <<step.item>> ELSE <<>>],
                        NoPre)
  /\ UNCHANGED <<img, thr, mutex, pipe, ncsd, build, file, part, mfile, wins, lpos, got, crashed>>

\* the walk of the whole tree from the root path IVFCVPATH::new gives
Walk ==
  /\ ~crashed
  /\ \E w \in {walk(<<>>, mfile)} :
        /\ mfile' = w.file
        /\ res' = VCall("walk", <<>>, NoArg,
                        [VRet("Ok", "", "", w.file) EXCEPT !.entries = w.visited],
                        NoPre)
        /\ got' = Disturbed(w.file)
  /\ UNCHANGED <<img, thr, mutex, pipe, ncsd, iter, build, file, part, wins, lpos, crashed>>

\* vfs.path(p).open_with_options(opt); the file a successful call returns
\* replaces the one the client held
Open(opt, p) ==
  /\ ~crashed
  /\ \E ret \in {open_with_options(build, opt, p, mfile)} :
        /\ mfile' = ret.file
        /\ res' = VCall("open", p, opt, ret, Pre)
        /\ IF ret.kind = "Ok"
             THEN /\ wins' = [w \in {"A"} |-> ret.win]
                  /\ got' = [open |-> TRUE, meta |-> ret.meta, bytes |-> <<>>,
                             alone |-> TRUE]
                  /\ lpos' = [lpos EXCEPT !["A"] = ret.win.start]
             ELSE /\ got' = Disturbed(ret.file)
                  /\ UNCHANGED <<wins, lpos>>
        /\ crashed' = (ret.kind = "Panic")
  /\ UNCHANGED <<img, thr, mutex, pipe, ncsd, iter, build, file, part>>

\* vfs.path(p).mkdir() / rm() / rmrf()
Mkdir(p) ==
  /\ ~crashed
  /\ LET ret == mkdir(mfile)
     IN mfile' = ret.file /\ res' = VCall("mkdir", p, NoArg, ret, Pre)
  /\ UNCHANGED <<img, thr, mutex, pipe, ncsd, iter, build, file, part, wins, lpos, got, crashed>>
Rm(p) ==
  /\ ~crashed
  /\ LET ret == rm(mfile)
     IN mfile' = ret.file /\ res' = VCall("rm", p, NoArg, ret, Pre)
  /\ UNCHANGED <<img, thr, mutex, pipe, ncsd, iter, build, file, part, wins, lpos, got, crashed>>
Rmrf(p) ==
  /\ ~crashed
  /\ LET ret == rmrf(mfile)
     IN mfile' = ret.file /\ res' = VCall("rmrf", p, NoArg, ret, Pre)
  /\ UNCHANGED <<img, thr, mutex, pipe, ncsd, iter, build, file, part, wins, lpos, got, crashed>>

\* write(buf) and flush() on the opened file
WriteFile(n) ==
  /\ ~crashed /\ got.open
  /\ LET ret == PartitionMutex_write(mfile)
     IN mfile' = ret.file /\ res' = VCall("write", <<>>, Buf(n), ret, Pre)
  /\ UNCHANGED <<img, thr, mutex, pipe, ncsd, iter, build, file, part, wins, lpos, got, crashed>>
Flush ==
  /\ ~crashed /\ got.open
  /\ LET ret == PartitionMutex_flush(mfile)
     IN mfile' = ret.file /\ res' = VCall("flush", <<>>, NoArg, ret, Pre)
  /\ UNCHANGED <<img, thr, mutex, pipe, ncsd, iter, build, file, part, wins, lpos, got, crashed>>

\* read(buf) on the opened file, buf.len() = n; a client is followed until it
\* has been given more than MaxFileLen + MaxBuf bytes
ReadFile(n) ==
  /\ ~crashed /\ got.open
  /\ Len(got.bytes) <= MaxFileLen + MaxBuf
  /\ PartitionMutex_read("A", n)
  /\ got' = [got EXCEPT !.bytes = @ \o res'.out.data]
  /\ UNCHANGED <<img, thr, mutex, pipe, ncsd, iter, build, file, part>>

\* The reader and the read-only VFS over one image: lookups, and the walk of
\* the tree.
NextVfs ==
  \/ \E d \in 0..img.nd, name \in Names : GetChild(d, name)
  \/ \E d \in 0..img.nd : ListChild(d)
  \/ \E p \in Paths : GetInternalMeta(p)
  \/ \E p \in Paths : Metadata(p)
  \/ Walk

SpecVfs == InitVfs /\ [][NextVfs]_vars

\* Listings: the reader lists directories; a client calls read_dir, draws
\* the items of the iterator one at a time, with listings in between.
NextList ==
  \/ \E d \in 0..img.nd : ListChild(d)
  \/ \E p \in Paths : ReadDir(p)
  \/ IterNext

SpecList == InitVfs /\ [][NextList]_vars

NoFlag == [write |-> FALSE, create |-> FALSE, append |-> FALSE,
           truncate |-> FALSE]

\* The VFS surface on any path: metadata, read_dir and opening for reading.
NextSurface ==
  \/ \E p \in Paths : Metadata(p)
  \/ \E p \in Paths : ReadDir(p)
  \/ \E p \in Paths : Open(NoFlag, p)

SpecSurface == InitVfs /\ [][NextSurface]_vars

\* The files of the VFS: a client opens paths for reading and reads the file
\* it holds.
NextFile ==
  \/ \E p \in Paths : Open(NoFlag, p)
  \/ \E n \in 0..MaxBuf : ReadFile(n)

SpecFile == InitVfs /\ [][NextFile]_vars

\* The write-path operations, on the root, on a name in the root (present in
\* the image or not) and on "/", with and without a file opened.
ShortPaths == {p \in Paths : Len(p) <= 1}

NextWrite ==
  \/ \E opt \in OpenOptions, p \in ShortPaths : Open(opt, p)
  \/ \E p \in ShortPaths : Mkdir(p)
  \/ \E p \in ShortPaths : Rm(p)
  \/ \E p \in ShortPaths : Rmrf(p)
  \/ \E n \in 0..MaxBuf : WriteFile(n)
  \/ Flush

SpecWrite == InitVfs /\ [][NextWrite]_vars

\* seek(target) on the opened file
SeekFile(target) ==
  /\ ~crashed /\ got.open
  /\ PartitionMutex_seek("A", target)
  /\ UNCHANGED <<img, thr, mutex, pipe, ncsd, iter, got, build, file, part>>

\* seek(SeekFrom::Start(u64::MAX)): `nb as usize` is usize::MAX
FarSeek == [kind |-> "Start", nb |-> UsizeMod - 1]

\* vfs.path(p).exists()
Exists(p) ==
  /\ ~crashed
  /\ \E meta \in {get_internal_meta(p, mfile)} :
        /\ mfile' = meta.file
        /\ res' = VCall("exists", p, NoArg,
                        VRet(IF exists(p, mfile) THEN "true" ELSE "false",
                             "", "", meta.file),
                        NoPre)
        /\ got' = Disturbed(meta.file)
  /\ UNCHANGED <<img, thr, mutex, pipe, ncsd, iter, build, file, part, wins, lpos,
                 crashed>>

\* A read or a seek on the opened file has panicked inside partition_read or
\* partition_seek: the thread unwinds, its MutexGuard is dropped while
\* panicking and the Mutex is poisoned.  The other threads go on, with the
\* reader, the VFS and the windows they share.
Unwind ==
  /\ crashed
  /\ res.who = "A" /\ res.out.kind = "Panic"
  /\ mutex' = [mutex EXCEPT !.poisoned = TRUE]
  /\ crashed' = FALSE
  /\ UNCHANGED <<img, thr, pipe, ncsd, iter, build, file, part, mfile, wins, lpos,
                 got, res>>

\* Threads that share one VFS: one opens a file and seeks far beyond it,
\* which panics under the lock in the checked build, and unwinds; the
\* operations of the other threads that come later are any read or seek on
\* the opened file, lookup, listing or VFS call.
NextPoison ==
  \/ ~mutex.poisoned /\ \E p \in ShortPaths : Open(NoFlag, p)
  \/ ~mutex.poisoned /\ SeekFile(FarSeek)
  \/ Unwind
  \/ mutex.poisoned /\ \E n \in 0..MaxBuf : ReadFile(n)
  \/ mutex.poisoned /\ \E target \in SeekFrom : SeekFile(target)
  \/ mutex.poisoned /\ \E d \in 0..img.nd, name \in Names : GetChild(d, name)
  \/ mutex.poisoned /\ \E d \in 0..img.nd : ListChild(d)
  \/ mutex.poisoned /\ \E p \in ShortPaths : Open(NoFlag, p)
  \/ mutex.poisoned /\ \E p \in ShortPaths : Metadata(p)
  \/ mutex.poisoned /\ \E p \in ShortPaths : ReadDir(p)
  \/ mutex.poisoned /\ \E p \in ShortPaths : Exists(p)

SpecPoison == InitVfs /\ [][NextPoison]_vars

\* ------------------------------------------------- ncsd.rs: the reader
\* An NCSD header is given by the fields NCSDReader::new examines: the magic,
\* the size in sectors, the 8 crypt-type bytes and the 8 partition records
\* (offset and length in sectors); img.len is the length of the source, which
\* may end inside the header.  The signature, the media id, the partition
\* type and what follows the partition table are read and kept or dropped
\* without a test, and their bytes are not given.
Sector == 512
NCSD == <<78, 67, 83, 68>>
Magics == {NCSD, <<78, 67, 83, 88>>, <<0, 0, 0, 0>>}
\* sector counts: 0, 1, and one whose byte count does not fit a u32
Sectors == {0, 1, (U32Mod \div Sector) + 1}
Zeros == [k \in 1..8 |-> 0]
Crypts == {Zeros} \cup {[Zeros EXCEPT ![k] = 1] : k \in {1, 8}}
\* the source ends inside the signature, the magic, the size, the crypt
\* type, the first partition record, the partition ids, or holds the header
HeaderCuts == {255, 259, 263, 287, 291, 463, 464}
NoPartition == [offset |-> 0, lenght |-> 0]
NcsdImages ==
  {[kind |-> "ncsd", len |-> len, magic |-> magic, size |-> size,
    crypt |-> crypt,
    table |-> [k \in 1..8 |-> IF k = at THEN one ELSE NoPartition]] :
     len \in HeaderCuts, magic \in Magics, size \in Sectors, crypt \in Crypts,
     at \in {1, 8}, one \in [offset : {0, 1}, lenght : Sectors]}

\* file.read_exact of n bytes at pos succeeds when the source holds them
read_exact_ok(pos, n) == pos + n <= img.len

\* what NCSDReader::new and load_partition return: Ok, an NCSDError with the
\* magic or the partition number it carries, or a panic
NRet(kind, err) ==
  [kind |-> kind, err |-> err, magic |-> <<>>, nb |-> 0 - 1,
   reader |-> NoNcsd, win |-> [start |-> 0, pointer |-> 0, end |-> 0],
   file |-> 0]

\* `u32::from_le_bytes(..) * 0x200`: the byte count, -1 when the checked
\* build panics
times_0x200(bld, sectors) ==
  IF sectors * Sector >= U32Mod
    THEN IF bld = "debug" THEN 0 - 1 ELSE (sectors * Sector) % U32Mod
  ELSE sectors * Sector

\* the loop `for partition_nb in 0..8` of lines 143-159; pos is where the
\* source stands
RECURSIVE partition_data(_, _, _, _)
partition_data(bld, partition_nb, pos, partitions) ==
  IF partition_nb >= 8
    THEN [NRet("Ok", "") EXCEPT !.reader.partitions = partitions, !.file = pos]
  ELSE IF ~read_exact_ok(pos, 4)
    THEN [NRet("Err", "ReadPartitionOffsetError") EXCEPT !.nb = partition_nb]
  ELSE IF times_0x200(bld, img.table[partition_nb + 1].offset) < 0
    THEN NRet("Panic", "multiply overflow")
  ELSE IF ~read_exact_ok(pos + 4, 4)
    THEN [NRet("Err", "ReadPartitionLenghtError") EXCEPT !.nb = partition_nb]
  ELSE IF times_0x200(bld, img.table[partition_nb + 1].lenght) < 0
    THEN NRet("Panic", "multiply overflow")
  ELSE partition_data(
         bld, partition_nb + 1, pos + 8,
         Append(partitions,
                [offset |-> times_0x200(bld, img.table[partition_nb + 1].offset),
                 lenght |-> times_0x200(bld, img.table[partition_nb + 1].lenght)]))

\* the loop `for partition_nb in 0..8` of lines 189-197
RECURSIVE partitions_id(_, _)
partitions_id(partition_nb, pos) ==
  IF partition_nb >= 8 THEN NRet("Ok", "")
  ELSE IF ~read_exact_ok(pos, 8)
    THEN [NRet("Err", "PartitionIdReadError") EXCEPT !.nb = partition_nb]
  ELSE partitions_id(partition_nb + 1, pos + 8)

\* NCSDReader::new(file), the source standing at 0
NCSDReader_new(bld) ==
  IF ~read_exact_ok(0, 256) THEN NRet("Err", "SignatureReadError")
  ELSE IF ~read_exact_ok(256, 4) THEN NRet("Err", "MagicReadError")
  ELSE IF img.magic # NCSD
    THEN [NRet("Err", "InvalidMagic") EXCEPT !.magic = img.magic]
  ELSE IF ~read_exact_ok(260, 4) THEN NRet("Err", "ReadSizeError")
  ELSE IF times_0x200(bld, img.size) < 0
    THEN NRet("Panic", "multiply overflow")
  ELSE IF ~read_exact_ok(264, 8) THEN NRet("Err", "MediaIDReadError")
  ELSE IF ~read_exact_ok(272, 8) THEN NRet("Err", "PartitionTypeReadError")
  ELSE IF ~read_exact_ok(280, 8) THEN NRet("Err", "CryptTypeReadError")
  ELSE IF img.crypt # Zeros THEN NRet("Err", "EncryptedRom")
  ELSE The({
    IF partitions.kind # "Ok" THEN partitions
    ELSE IF ~read_exact_ok(352, 32) THEN NRet("Err", "ReadExHeaderHashError")
    ELSE IF ~read_exact_ok(384, 4)
      THEN NRet("Err", "ReadAdditionalHeaderSizeError")
    ELSE IF ~read_exact_ok(388, 4) THEN NRet("Err", "SectorZeroOffsetReadError")
    ELSE IF ~read_exact_ok(392, 8) THEN NRet("Err", "PartitionFlagReadError")
    ELSE IF partitions_id(0, 400).kind # "Ok" THEN partitions_id(0, 400)
    ELSE [NRet("Ok", "") EXCEPT
            !.reader = [made |-> TRUE,
                        size |-> times_0x200(bld, img.size),
                        partition_crypt_type |-> img.crypt,
                        partitions |-> partitions.reader.partitions],
            !.file = 464] :
    partitions \in {partition_data(bld, 0, 288, <<>>)}})

\* Partition::new(file, start, lenght): the fields, then seek(Start(0))
Partition_new(bld, fpos, start, lenght) ==
  The({IF sought.kind = "Ok"
         THEN [NRet("Ok", "") EXCEPT
                 !.win = [Window(start, lenght) EXCEPT
                            !.pointer = sought.pointer],
                 !.file = sought.file]
       ELSE NRet(sought.kind, sought.err) :
       sought \in {Partition_seek(bld, fpos, start, start + lenght, start,
                                  [kind |-> "Start", nb |-> 0])}})

\* load_partition as it would be without the test of the record's offset
load_partition_any_offset(bld, reader, partition_nb, fpos) ==
  IF partition_nb >= 8
    THEN [NRet("Err", "InexistingPartition") EXCEPT !.nb = partition_nb]
  ELSE The({IF made.kind = "Err" THEN NRet("Err", "CreatePartitionFail")
            ELSE made :
            made \in {Partition_new(bld, fpos,
                                    reader.partitions[partition_nb + 1].offset,
                                    reader.partitions[partition_nb + 1].lenght)}})

\* NCSDReader::load_partition(self, partition_nb)
load_partition(bld, reader, partition_nb, fpos) ==
  IF partition_nb >= 8
    THEN [NRet("Err", "InexistingPartition") EXCEPT !.nb = partition_nb]
  ELSE IF reader.partitions[partition_nb + 1].offset = 0
    THEN [NRet("Err", "InexistingPartition") EXCEPT !.nb = partition_nb]
  ELSE The({IF made.kind = "Err" THEN NRet("Err", "CreatePartitionFail")
            ELSE made :
            made \in {Partition_new(bld, fpos,
                                    reader.partitions[partition_nb + 1].offset,
                                    reader.partitions[partition_nb + 1].lenght)}})

\* A source that holds an NCSD header, just opened: no reader, no window.
InitNcsd ==
  /\ img \in NcsdImages
  /\ build \in Builds
  /\ file = 0
  /\ part = NoWin
  /\ mfile = 0
  /\ wins = [w \in {} |-> NoWin]
  /\ lpos = [w \in {"P", "A"} |-> 0]
  /\ got = NoSession
  /\ iter = NoIter
  /\ ncsd = NoNcsd
  /\ pipe = NoPipe
  /\ mutex = Unlocked
  /\ thr = NoThreads
  /\ res = NoCall
  /\ crashed = FALSE

\* a call on the NCSD reader
NCall(op, arg, ret) ==
  [VCall(op, <<>>, arg, ret, NoPre) EXCEPT !.who = "ncsd"]

\* NCSDReader::new(file): the source is moved in, and comes back in the
\* reader only
NcsdNew ==
  /\ res = NoCall
  /\ \E ret \in {NCSDReader_new(build)} :
        /\ res' = NCall("NCSDReader::new", NoArg, ret)
        /\ ncsd' = ret.reader
        /\ file' = IF ret.kind = "Ok" THEN ret.file ELSE file
        /\ crashed' = (ret.kind = "Panic")
  /\ UNCHANGED <<img, thr, mutex, pipe, iter, build, part, mfile, wins, lpos, got>>

\* reader.load_partition(partition_nb): the reader is consumed
LoadPartition(partition_nb) ==
  /\ ~crashed
  /\ ncsd.made
  /\ \E ret \in {load_partition(build, ncsd, partition_nb, file)} :
        /\ res' = NCall("load_partition",
                        [kind |-> "Nb", nb |-> partition_nb], ret)
        /\ ncsd' = NoNcsd
        /\ part' = IF ret.kind = "Ok" THEN ret.win ELSE part
        /\ file' = IF ret.kind = "Ok" THEN ret.file ELSE file
        /\ crashed' = (ret.kind = "Panic")
  /\ UNCHANGED <<img, thr, mutex, pipe, iter, build, mfile, wins, lpos, got>>

\* The NCSD container: the header is parsed, then a partition is loaded.
NextNcsd ==
  \/ NcsdNew
  \/ \E partition_nb \in 0..8 : LoadPartition(partition_nb)

SpecNcsd == InitNcsd /\ [][NextNcsd]_vars

\* ------------------------------------------------- lib.rs: get_romfs_vfs
\* Partition<Partition<T>>: st is the source's position (file) and the
\* windows stacked over it (ws[1] reads the source, ws[k] reads ws[k - 1]);
\* level 0 is the source itself; seen lists the offsets of the source whose
\* bytes have been read.  An outcome is Ok with a value, Err with the
\* error, or Panic, and the state the call leaves.
SRet(kind, val, err, st) == [kind |-> kind, val |-> val, err |-> err, st |-> st]
Start(nb) == [kind |-> "Start", nb |-> nb]

RECURSIVE Nested_seek(_, _, _, _)
RECURSIVE Nested_read(_, _, _, _)
RECURSIVE Nested_read_exact(_, _, _, _)
RECURSIVE Nested_tail(_, _, _, _, _, _)

\* impl Seek for Partition, over the level below
Nested_seek(bld, k, st, pos) ==
  IF k = 0 THEN SRet("Ok", pos.nb, "", [st EXCEPT !.file = pos.nb])
  ELSE The({
    IF new < 0 THEN SRet("Panic", 0 - 1, "add overflow", st)
    ELSE IF new < st.ws[k].start THEN SRet("Err", 0 - 1, "InvalidInput", st)
    ELSE The({IF below.kind # "Ok" THEN below
              ELSE SRet("Ok", new - st.ws[k].start, "",
                        [below.st EXCEPT !.ws[k].pointer = new]) :
              below \in {Nested_seek(bld, k - 1, st, Start(new))}}) :
    new \in {new_real_pos(bld, st.ws[k].start, st.ws[k].end,
                          st.ws[k].pointer, pos)}})

\* impl Read for Partition, over the level below
Nested_read(bld, k, st, buf_len) ==
  IF k = 0
    THEN The({SRet("Ok", r.n, "",
                   [st EXCEPT !.file = r.pos,
                              !.seen = @ \o [i \in 1..r.n |->
                                               st.file + i - 1]]) :
              r \in {SrcRead(st.file, buf_len)}})
  ELSE IF bld = "debug" /\ Overflows(st.ws[k].pointer, buf_len)
    THEN SRet("Panic", 0 - 1, "add overflow", st)
  ELSE IF WrapAdd(st.ws[k].pointer, buf_len) >= st.ws[k].end
    THEN IF bld = "debug" /\ st.ws[k].end < st.ws[k].pointer
           THEN SRet("Panic", 0 - 1, "subtract overflow", st)
           ELSE Nested_tail(bld, k, st, 0,
                            (st.ws[k].end - st.ws[k].pointer) % UsizeMod,
                            buf_len)
  ELSE Nested_read(bld, k - 1,
                   [st EXCEPT !.ws[k].pointer = WrapAdd(@, buf_len)], buf_len)

\* Read::read_exact: read until the buffer is full; Ok(0) is UnexpectedEof
Nested_read_exact(bld, k, st, n) ==
  IF n = 0 THEN SRet("Ok", 0, "", st)
  ELSE The({IF r.kind # "Ok" THEN r
            ELSE IF r.val = 0 THEN SRet("Err", 0 - 1, "UnexpectedEof", r.st)
            ELSE Nested_read_exact(bld, k, r.st, n - r.val) :
            r \in {Nested_read(bld, k, st, n)}})

\* the loop `for loop_nb in 0..loop_total_nb` of Partition::read
Nested_tail(bld, k, st, loop_nb, loop_total_nb, buf_len) ==
  IF loop_nb >= loop_total_nb THEN SRet("Ok", loop_total_nb, "", st)
  ELSE The({
    IF one.kind = "Panic" THEN one
    ELSE IF one.kind = "Err"
      THEN IF bld = "debug" /\ Overflows(st.ws[k].start, st.ws[k].pointer)
             THEN SRet("Panic", 0 - 1, "add overflow", one.st)
           ELSE The({IF sought.kind = "Panic" THEN sought
                     ELSE SRet("Err", 0 - 1, one.err, sought.st) :
                     sought \in {Nested_seek(
                                   bld, k - 1, one.st,
                                   Start(WrapAdd(st.ws[k].start,
                                                 st.ws[k].pointer)))}})
    ELSE IF bld = "debug" /\ Overflows(st.ws[k].pointer, 1)
      THEN SRet("Panic", 0 - 1, "add overflow", one.st)
    ELSE IF loop_nb >= buf_len
      THEN SRet("Panic", 0 - 1, "index out of bounds",
                [one.st EXCEPT !.ws[k].pointer = WrapAdd(@, 1)])
    ELSE Nested_tail(bld, k, [one.st EXCEPT !.ws[k].pointer = WrapAdd(@, 1)],
                     loop_nb + 1, loop_total_nb, buf_len) :
    one \in {Nested_read_exact(bld, k - 1, st, 1)}})

\* Partition::new(file, start, lenght) over the windows of st: the new window
\* is pushed, then seek(Start(0))
Nested_new(bld, st, start, lenght) ==
  Nested_seek(bld, Len(st.ws) + 1,
              [st EXCEPT !.ws = Append(@, Window(start, lenght))], Start(0))

\* A reader's constructor is a list of steps on its source: read_exact of n
\* bytes or seek to Start(n), either failing with the step's error; a test
\* of what was read, failing with the step's error; `* 0x200` on a sector
\* count.
ReadStep(n, err) == [op |-> "read", n |-> n, err |-> err, ok |-> TRUE]
SeekStep(n, err) == [op |-> "seek", n |-> n, err |-> err, ok |-> TRUE]
TestStep(ok, err) == [op |-> "test", n |-> 0, err |-> err, ok |-> ok]
MulStep(sectors) == [op |-> "mul", n |-> sectors, err |-> "", ok |-> TRUE]

RECURSIVE run_steps(_, _, _, _, _)
run_steps(bld, k, st, steps, i) ==
  IF i > Len(steps) THEN SRet("Ok", 0, "", st)
  ELSE IF steps[i].op = "test"
    THEN IF steps[i].ok THEN run_steps(bld, k, st, steps, i + 1)
         ELSE SRet("Err", 0 - 1, steps[i].err, st)
  ELSE IF steps[i].op = "mul"
    THEN IF times_0x200(bld, steps[i].n) < 0
           THEN SRet("Panic", 0 - 1, "multiply overflow", st)
         ELSE run_steps(bld, k, st, steps, i + 1)
  ELSE The({IF r.kind = "Ok" THEN run_steps(bld, k, r.st, steps, i + 1)
            ELSE IF r.kind = "Err" THEN [r EXCEPT !.err = steps[i].err]
            ELSE r :
            r \in {IF steps[i].op = "read"
                     THEN Nested_read_exact(bld, k, st, steps[i].n)
                   ELSE Nested_seek(bld, k, st, Start(steps[i].n))}})

\* ncch.rs: NCCHReader::new(file), lines 65-222.  The header is given by its
\* magic, its content size and the RomFS region, in sectors; the plain, logo
\* and ExeFS regions are absent (0).
NCCH == <<78, 67, 67, 72>>
NCCHReader_new_steps ==
  <<ReadStep(256, "ReadNCCHSignatureError"),
    ReadStep(4, "ReadMagicError"),
    TestStep(img.ncch.magic = NCCH, "InvalidMagic"),
    ReadStep(4, "SizeReadError"), MulStep(img.ncch.content_size),
    ReadStep(8, "PartitionIdReadError"),
    ReadStep(2, "MakerCodeReadError"),
    ReadStep(2, "VersionReadError"),
    SeekStep(392, "FlagsSeekError"),
    ReadStep(8, "FlagsReadError"),
    ReadStep(4, "OffsetReadError"), MulStep(0),
    ReadStep(4, "LenghtReadError"), MulStep(0),
    ReadStep(4, "OffsetReadError"), MulStep(0),
    ReadStep(4, "LenghtReadError"), MulStep(0),
    ReadStep(4, "OffsetReadError"), MulStep(0),
    ReadStep(4, "LenghtReadError"), MulStep(0),
    SeekStep(432, "OffsetSeekError"),
    ReadStep(4, "OffsetReadError"), MulStep(img.ncch.romfs.offset),
    ReadStep(4, "LenghtReadError"), MulStep(img.ncch.romfs.lenght)>>
NCCHReader_new(bld, st) ==
  run_steps(bld, Len(st.ws), st, NCCHReader_new_steps, 1)

\* NCCHReader::get_romfs -> get_partition: Partition::new on the reader's
\* file, its error mapped to CreatePartitionError
get_romfs(bld, st, partdata) ==
  The({IF made.kind = "Err"
         THEN SRet("Err", 0 - 1, "CreatePartitionError", st)
       ELSE made :
       made \in {Nested_new(bld, st, partdata.offset, partdata.lenght)}})

\* ivfc.rs: IVFCReader::new(file), lines 246-324, the root's
\* DirectoryMetadata::new included.  The header is given by its first magic
\* and the length field of the level-3 header; the directory table is where
\* the RomFS images above have it.
IVFC == <<73, 86, 70, 67>>
IVFCReader_new_steps ==
  <<ReadStep(4, "ReadError"),
    TestStep(img.ivfc.magic_1 = IVFC, "FirstMagicError"),
    ReadStep(4, "ReadError"),
    TestStep(img.ivfc.magic_2 = <<0, 0, 1, 0>>, "SecondMagicError"),
    SeekStep(offset_table_3, "SeekError"),
    ReadStep(4, "ReadError"),
    TestStep(img.ivfc.level_3_header_lenght = level_3_header_lenght,
             "Level3HeaderLenghtInvalid"),
    ReadStep(4, "ReadError"), ReadStep(4, "ReadError"),
    ReadStep(4, "ReadError"), ReadStep(4, "ReadError"),
    ReadStep(4, "ReadError"), ReadStep(4, "ReadError"),
    ReadStep(4, "ReadError"), ReadStep(4, "ReadError"),
    ReadStep(4, "ReadError"),
    SeekStep(dir_metadata_part_offset, "SeekError"),
    ReadStep(4, "ReadError"), ReadStep(4, "ReadError"),
    ReadStep(4, "ReadError"), ReadStep(4, "ReadError"),
    ReadStep(4, "ReadError")>>
IVFCReader_new(bld, st) ==
  run_steps(bld, Len(st.ws), st, IVFCReader_new_steps, 1)

\* A cartridge image: the NCSD header with partition 0 in the table, that
\* partition's NCCH header, and the RomFS's IVFC header.  The source ends
\* inside the NCSD header, inside the NCCH magic, inside the second IVFC
\* magic, or after the root's directory record.
CartCuts == {463, 770, 1028, 5184}
CartImages ==
  {[kind |-> "ncsd", len |-> len, magic |-> magic, size |-> size,
    crypt |-> Zeros,
    table |-> [k \in 1..8 |-> IF k = 1 THEN one ELSE NoPartition],
    ncch |-> [magic |-> ncch_magic, content_size |-> 1, romfs |-> romfs],
    ivfc |-> [magic_1 |-> magic_1, magic_2 |-> <<0, 0, 1, 0>>,
              level_3_header_lenght |-> header_lenght]] :
     len \in CartCuts, magic \in {NCSD, <<0, 0, 0, 0>>},
     size \in {1, (U32Mod \div Sector) + 1},
     one \in [offset : {0, 1}, lenght : {0, 12}],
     ncch_magic \in {NCCH, <<0, 0, 0, 0>>},
     romfs \in [offset : {1, 13}, lenght : {0, 1, 9}],
     magic_1 \in {IVFC, <<0, 0, 0, 0>>},
     header_lenght \in {level_3_header_lenght, 48}}

\* `?` in get_romfs_vfs: impl From<NCSDError | NCCHError | IVFCError> for
\* GetRomfsError, the layer's error kept as the cause
GRet(kind, err, cause) == [kind |-> kind, err |-> err, cause |-> cause]
GetRomfsError_from_ncsd(layer, cause) == GRet("Err", "ReadNcsdError", cause)
GetRomfsError_from(layer, cause) ==
  GRet("Err",
       CASE layer = "ncsd" -> "ReadNcsdError"
         [] layer = "ncch" -> "ReadNcchError"
         [] layer = "ivfc" -> "ReadIVFCError",
       cause)

\* the stages of get_romfs_vfs in the order of lines 93-98, and the layer
\* whose error type each returns
Stages ==
  <<"NCSDReader::new", "load_partition", "NCCHReader::new", "get_romfs",
    "IVFCReader::new", "IVFCVFS::new">>
LayerOf(stage) ==
  CASE stage \in {"NCSDReader::new", "load_partition"} -> "ncsd"
    [] stage \in {"NCCHReader::new", "get_romfs"} -> "ncch"
    [] stage = "IVFCReader::new" -> "ivfc"
    [] stage = "IVFCVFS::new" -> "vfs"
StageAfter(stage) ==
  IF stage = "IVFCVFS::new" THEN "returned"
  ELSE Stages[1 + CHOOSE i \in 1..5 : Stages[i] = stage]

\* a stage has returned kind (err): on Ok the next stage is to run, else
\* get_romfs_vfs returns the converted error, or unwinds
Staged(stage, kind, err) ==
  IF kind = "Ok"
    THEN [pipe EXCEPT !.pc = StageAfter(stage), !.ran = Append(@, stage),
                      !.ret = IF stage = "IVFCVFS::new"
                                THEN GRet("Ok", "", "") ELSE @]
  ELSE [pipe EXCEPT !.pc = "returned", !.ran = Append(@, stage),
                    !.ret = IF kind = "Err"
                              THEN GetRomfsError_from(LayerOf(stage), err)
                            ELSE GRet("Panic", "", err)]

\* let ncsd = NCSDReader::new(file)?;
StageNcsd ==
  /\ pipe.pc = "NCSDReader::new"
  /\ \E ret \in {NCSDReader_new(build)} :
        /\ pipe' = Staged("NCSDReader::new", ret.kind, ret.err)
        /\ ncsd' = ret.reader
        /\ file' = IF ret.kind = "Ok" THEN ret.file ELSE file
        /\ crashed' = (ret.kind = "Panic")
  /\ UNCHANGED <<img, thr, mutex, build, part, mfile, wins, lpos, got, iter, res>>

\* let partition = ncsd.load_partition(0)?;
StageLoad ==
  /\ pipe.pc = "load_partition"
  /\ \E ret \in {load_partition(build, ncsd, 0, file)} :
        /\ pipe' = [Staged("load_partition", ret.kind, ret.err) EXCEPT
                      !.ws = IF ret.kind = "Ok" THEN <<ret.win>> ELSE @]
        /\ file' = IF ret.kind = "Ok" THEN ret.file ELSE file
        /\ crashed' = (ret.kind = "Panic")
  /\ ncsd' = NoNcsd
  /\ UNCHANGED <<img, thr, mutex, build, part, mfile, wins, lpos, got, iter, res>>

\* let ncch = NCCHReader::new(partition)?;
StageNcch ==
  /\ pipe.pc = "NCCHReader::new"
  /\ \E ret \in {NCCHReader_new(build, [file |-> file, ws |-> pipe.ws, seen |-> <<>>])} :
        /\ pipe' = [Staged("NCCHReader::new", ret.kind, ret.err) EXCEPT
                      !.ws = ret.st.ws,
                      !.romfs =
                        IF ret.kind = "Ok"
                          THEN [offset |->
                                  times_0x200(build, img.ncch.romfs.offset),
                                lenght |->
                                  times_0x200(build, img.ncch.romfs.lenght)]
                        ELSE @]
        /\ file' = ret.st.file
        /\ crashed' = (ret.kind = "Panic")
  /\ UNCHANGED <<img, thr, mutex, build, part, mfile, wins, lpos, got, iter, ncsd, res>>

\* let romfs = ncch.get_romfs()?;
StageRomfs ==
  /\ pipe.pc = "get_romfs"
  /\ \E ret \in {get_romfs(build, [file |-> file, ws |-> pipe.ws, seen |-> <<>>],
                           pipe.romfs)} :
        /\ pipe' = [Staged("get_romfs", ret.kind, ret.err) EXCEPT
                      !.ws = ret.st.ws]
        /\ file' = ret.st.file
        /\ crashed' = (ret.kind = "Panic")
  /\ UNCHANGED <<img, thr, mutex, build, part, mfile, wins, lpos, got, iter, ncsd, res>>

\* let ivfc = IVFCReader::new(romfs)?;
StageIvfc ==
  /\ pipe.pc = "IVFCReader::new"
  /\ \E ret \in {IVFCReader_new(build, [file |-> file, ws |-> pipe.ws, seen |-> <<>>])} :
        /\ pipe' = [Staged("IVFCReader::new", ret.kind, ret.err) EXCEPT
                      !.ws = ret.st.ws]
        /\ file' = ret.st.file
        /\ crashed' = (ret.kind = "Panic")
  /\ UNCHANGED <<img, thr, mutex, build, part, mfile, wins, lpos, got, iter, ncsd, res>>

\* Ok(IVFCVFS::new(ivfc))
StageWrap ==
  /\ pipe.pc = "IVFCVFS::new"
  /\ pipe' = Staged("IVFCVFS::new", "Ok", "")
  /\ UNCHANGED <<img, thr, mutex, build, file, part, mfile, wins, lpos, got, iter, ncsd,
                 res, crashed>>

\* get_romfs_vfs(file) on a cartridge image just opened
InitCart ==
  /\ img \in CartImages
  /\ build \in Builds
  /\ file = 0
  /\ part = NoWin
  /\ mfile = 0
  /\ wins = [w \in {} |-> NoWin]
  /\ lpos = [w \in {"P", "A"} |-> 0]
  /\ got = NoSession
  /\ iter = NoIter
  /\ ncsd = NoNcsd
  /\ pipe = NoPipe
  /\ mutex = Unlocked
  /\ thr = NoThreads
  /\ res = NoCall
  /\ crashed = FALSE

NextCart ==
  \/ StageNcsd
  \/ StageLoad
  \/ StageNcch
  \/ StageRomfs
  \/ StageIvfc
  \/ StageWrap

SpecCart == InitCart /\ [][NextCart]_vars

\* ------------------------------------------------- a Partition in a Partition
\* Partition<Partition<T>> as get_romfs_vfs builds it: A over the source, B
\* over A (B's start and end are offsets in A).  The windows are pipe.ws, the
\* source's position is file.
InitNest ==
  /\ img = Bytes
  /\ build \in Builds
  /\ \E a_start \in 0..MaxStart, a_lenght \in 0..SrcLen,
        b_start \in 0..MaxStart, b_lenght \in 0..MaxLen :
       \E a \in {Nested_new(build, [file |-> 0, ws |-> <<>>, seen |-> <<>>],
                             a_start, a_lenght)} :
          \E b \in {Nested_new(build, a.st, b_start, b_lenght)} :
             /\ a.kind = "Ok" /\ b.kind = "Ok"
             /\ pipe = [NoPipe EXCEPT !.pc = "nested", !.ws = b.st.ws]
             /\ file = b.st.file
  /\ part = NoWin
  /\ mfile = 0
  /\ wins = [w \in {} |-> NoWin]
  /\ lpos = [w \in {"P", "A"} |-> 0]
  /\ got = NoSession
  /\ iter = NoIter
  /\ ncsd = NoNcsd
  /\ mutex = Unlocked
  /\ thr = NoThreads
  /\ res = NoCall
  /\ crashed = FALSE

\* a call on B: what it returned, the offsets of the source it has read, and
\* where the source stood before
NestCall(op, arg, ret) ==
  [VCall(op, <<>>, arg,
         [kind |-> ret.kind, val |-> ret.val, err |-> ret.err,
          seen |-> ret.st.seen], NoPre)
     EXCEPT !.who = "B", !.before = file]

\* the call leaves the windows and the source as ret has them
Nested(ret) ==
  /\ NearEnds(ret.st.file)
  /\ \A k \in 1..Len(ret.st.ws) : NearEnds(ret.st.ws[k].pointer)
  /\ pipe' = [pipe EXCEPT !.ws = ret.st.ws]
  /\ file' = ret.st.file
  /\ crashed' = (ret.kind = "Panic")

\* B.seek(pos)
NestSeek(pos) ==
  /\ ~crashed
  /\ \E ret \in {Nested_seek(build, 2,
                              [file |-> file, ws |-> pipe.ws, seen |-> <<>>],
                              pos)} :
        /\ Nested(ret)
        /\ res' = NestCall("seek", pos, ret)
  /\ UNCHANGED <<img, build, part, mfile, mutex, thr, wins, lpos, got, iter,
                 ncsd>>

\* B.read(buf), buf.len() = n
NestRead(n) ==
  /\ ~crashed
  /\ \E ret \in {Nested_read(build, 2,
                              [file |-> file, ws |-> pipe.ws, seen |-> <<>>],
                              n)} :
        /\ Nested(ret)
        /\ res' = NestCall("read", Buf(n), ret)
  /\ UNCHANGED <<img, build, part, mfile, mutex, thr, wins, lpos, got, iter,
                 ncsd>>

NextNest ==
  \/ \E pos \in SeekFrom : NestSeek(pos)
  \/ \E n \in 0..MaxBuf : NestRead(n)

SpecNest == InitNest /\ [][NextNest]_vars

\* ------------------------------------------------- ivfc.rs: the header
\* An IVFC source is given by the fields IVFCReader::new examines or keeps:
\* the two magics, the length field of the level-3 header and the three
\* relative offsets; img.len is the length of the source.  The hash-table
\* fields and the lengths are read and dropped, and the root's record is
\* read where the directory table begins.
Magic2 == <<0, 0, 1, 0>>
\* relative offsets: two inside the source, and the first whose sum with
\* offset_table_3 does not fit a u32
RelOffsets == {level_3_header_lenght, level_3_header_lenght + 24,
               U32Mod - offset_table_3}
\* the source ends inside the first magic, the second magic, the level-3
\* header length, the header, the root's record, or holds them all
IvfcCuts == {3, 7, offset_table_3 + 3, offset_table_3 + 39,
             offset_table_3 + level_3_header_lenght + 19,
             offset_table_3 + level_3_header_lenght + 44}
IvfcImages ==
  {[kind |-> "ivfc", len |-> len, magic_1 |-> magic_1, magic_2 |-> magic_2,
    level_3_header_lenght |-> header_lenght,
    relative_offset_dir_metadata |-> rel_dir,
    relative_offset_file_metadata |-> rel_file,
    relative_offset_file_data |-> rel_data] :
     len \in IvfcCuts, magic_1 \in {IVFC, <<73, 86, 70, 0>>},
     magic_2 \in {Magic2, <<0, 0, 0, 0>>},
     header_lenght \in {level_3_header_lenght, 48},
     rel_dir \in RelOffsets, rel_file \in RelOffsets,
     rel_data \in RelOffsets}

\* what IVFCReader::new returns: Ok with the reader's fields and where the
\* root was parsed, an IVFCError with the value it carries, or a panic
IRet(kind, err, val) ==
  [kind |-> kind, err |-> err, val |-> val,
   dir_metadata_part_offset |-> 0 - 1, file_metadata_part_offset |-> 0 - 1,
   file_data_offset |-> 0 - 1, root_at |-> 0 - 1,
   first_dir_metadata |-> NoMeta]

\* `offset_table_3 + relative_offset` on u32: the sum, -1 when the checked
\* build panics
u32_add(bld, a, b) ==
  IF a + b >= U32Mod
    THEN IF bld = "debug" THEN 0 - 1 ELSE (a + b) % U32Mod
  ELSE a + b

\* the end of IVFCReader::new (lines 308-323): the seek to the directory
\* table and DirectoryMetadata::new(&mut file, true), 5 u32 and no name
IVFCReader_root(dir, fil, data) ==
  IF ~read_exact_ok(dir, 20) THEN IRet("Err", "ReadError", <<>>)
  ELSE [IRet("Ok", "", <<>>) EXCEPT
          !.dir_metadata_part_offset = dir,
          !.file_metadata_part_offset = fil,
          !.file_data_offset = data,
          !.root_at = dir,
          !.first_dir_metadata = [name |-> <<>>]]

\* IVFCReader::new(file) on the source itself, standing at 0
IVFCReader_new_header(bld) ==
  IF ~read_exact_ok(0, 4) THEN IRet("Err", "ReadError", <<>>)
  ELSE IF img.magic_1 # IVFC THEN IRet("Err", "FirstMagicError", img.magic_1)
  ELSE IF ~read_exact_ok(4, 4) THEN IRet("Err", "ReadError", <<>>)
  ELSE IF img.magic_2 # Magic2
    THEN IRet("Err", "SecondMagicError", img.magic_2)
  ELSE IF ~read_exact_ok(offset_table_3, 4) THEN IRet("Err", "ReadError", <<>>)
  ELSE IF img.level_3_header_lenght # level_3_header_lenght
    THEN IRet("Err", "Level3HeaderLenghtInvalid", img.level_3_header_lenght)
  ELSE IF ~read_exact_ok(offset_table_3 + 4, 16)
    THEN IRet("Err", "ReadError", <<>>)
  ELSE The({
    IF dir < 0 THEN IRet("Panic", "add overflow", <<>>)
    ELSE IF ~read_exact_ok(offset_table_3 + 20, 12)
      THEN IRet("Err", "ReadError", <<>>)
    ELSE IF fil < 0 THEN IRet("Panic", "add overflow", <<>>)
    ELSE IF ~read_exact_ok(offset_table_3 + 32, 8)
      THEN IRet("Err", "ReadError", <<>>)
    ELSE IF data < 0 THEN IRet("Panic", "add overflow", <<>>)
    ELSE IVFCReader_root(dir, fil, data) :
    dir \in {u32_add(bld, offset_table_3, img.relative_offset_dir_metadata)},
    fil \in {u32_add(bld, offset_table_3, img.relative_offset_file_metadata)},
    data \in {u32_add(bld, img.relative_offset_file_data, offset_table_3)}})

\* A source that holds an IVFC header, just opened.
InitIvfc ==
  /\ img \in IvfcImages
  /\ build \in Builds
  /\ file = 0
  /\ part = NoWin
  /\ mfile = 0
  /\ wins = [w \in {} |-> NoWin]
  /\ lpos = [w \in {"P", "A"} |-> 0]
  /\ got = NoSession
  /\ iter = NoIter
  /\ ncsd = NoNcsd
  /\ pipe = NoPipe
  /\ mutex = Unlocked
  /\ thr = NoThreads
  /\ res = NoCall
  /\ crashed = FALSE

\* IVFCReader::new(file)
IvfcNew ==
  /\ res = NoCall
  /\ \E ret \in {IVFCReader_new_header(build)} :
        /\ res' = [VCall("IVFCReader::new", <<>>, NoArg, ret, NoPre) EXCEPT
                     !.who = "ivfc"]
        /\ crashed' = (ret.kind = "Panic")
  /\ UNCHANGED <<img, build, file, part, mfile, mutex, thr, wins, lpos, got,
                 iter, ncsd, pipe>>

NextIvfc == IvfcNew

SpecIvfc == InitIvfc /\ [][NextIvfc]_vars

\* ------------------------------------------------- threads on one reader
\* Two threads share the IVFCReader and its Arc<Mutex<T>>.  A call is followed
\* access by access: it waits for the lock ("lock"), holds the guard while it
\* seeks and reads the source ("held"), drops the guard when the function
\* returns, and hands its result to the caller ("ret").  A seek, the read of
\* one record, a delegated read and the read_exact of one byte are one access
\* each.  `at` is what the holder does next.
Threads == {"t1", "t2"}

SeekTo(to, then) == [do |-> "seek", to |-> to, then |-> then]
ReadRecord(chain) == [do |-> "record", to |-> 0, then |-> chain]
ReadBuf == [do |-> "buf", to |-> 0, then |-> "return"]
ReadByte == [do |-> "byte", to |-> 0, then |-> "return"]
Return == [do |-> "return", to |-> 0, then |-> ""]

\* what a call returns: kind "Dir" | "File" | "Ok" | "Err" | "Panic"
TRet(kind, err, meta, names, val) ==
  [kind |-> kind, err |-> err, meta |-> meta, names |-> names, val |-> val]
NoTRet == TRet("None", "", NoMeta, <<>>, 0 - 1)

\* a call: the function, and its arguments (the directory record and the
\* name, the file opened, the buffer's length, the seek target)
TCall(op, d, name, j, nb) == [op |-> op, d |-> d, name |-> name, j |-> j, nb |-> nb]
NoTCall == TCall("-", 0, "", 0, 0)

Idle(win) ==
  [pc |-> "idle", call |-> NoTCall, walk |-> "-", at |-> Return,
   childs |-> <<>>, loop_nb |-> 0, loop_total_nb |-> 0, buf |-> <<>>,
   win |-> win, holds |-> 0,
   visited |-> <<>>, ret |-> NoTRet]

\* the records at a position of the source; where no record begins, what is
\* parsed is not a record of the image
IsDirAt(pos) == \E k \in 1..img.nd : dir_metadata_part_offset + DirOff(k) = pos
IsFileAt(pos) == \E k \in 1..img.nf : file_metadata_part_offset + FileOff(k) = pos
DirAt(pos) ==
  IF IsDirAt(pos) THEN DirectoryMetadata_new(pos, FALSE)
  ELSE [meta |-> [offset_parent |-> 0, offset_next_sibling |-> None,
                  offset_first_subdir |-> None, offset_first_file |-> None,
                  name |-> <<"?">>],
        file |-> pos + DirStride]
FileAt(pos) ==
  IF IsFileAt(pos) THEN FileMetadata_new(pos)
  ELSE [meta |-> [offset_parent |-> 0, offset_sibling |-> None,
                  offset_file_data |-> 0, lenght_file_data |-> 0,
                  name |-> "?"],
        file |-> pos + FileStride]

\* the directory record a call was given
DirArg(d) ==
  DirectoryMetadata_new(dir_metadata_part_offset + DirOff(d), d = 0).meta

\* self.file.lock() returns the guard when no thread holds it
lock_always_free == TRUE
lock_is_free == mutex.holder = "-"

\* client code: a thread calls get_child, list_child, opens a file of the
\* image (PartitionMutex::new over its data), or reads or seeks the file it
\* has opened
Invoke(t, call) ==
  /\ thr[t].pc = "idle"
  /\ call.op \in {"read", "seek"} => thr[t].win # NoWin
  /\ thr' = [thr EXCEPT ![t] =
               [Idle(IF call.op = "open"
                       THEN Window(get_file_real_offset(FileRecord(call.j)),
                                   FileRecord(call.j).lenght_file_data)
                     ELSE thr[t].win)
                  EXCEPT !.pc = "lock", !.call = call,
                         !.walk = IF call.op = "get_child" THEN "get_child"
                                  ELSE IF call.op = "list_child"
                                    THEN "list_file_child"
                                  ELSE "-"]]
  /\ UNCHANGED <<img, build, file, part, mfile, mutex, wins, lpos, got, iter,
                 ncsd, pipe, res, crashed>>

\* get_child's `(value + self.dir_metadata_part_offset) as u64`: the sum of two
\* u32, then the seek to it
SeekU32(self, value, part_offset, chain) ==
  IF value + part_offset >= U32Mod /\ build = "debug"
    THEN [self EXCEPT !.at = Return,
                      !.ret = TRet("Panic", "add overflow", NoMeta, <<>>, 0 - 1)]
  ELSE [self EXCEPT !.at = SeekTo((value + part_offset) % U32Mod, chain)]

\* the first statements of the function once it has the guard: what it
\* returns at once, or its first access
get_child_files(self) ==
  IF DirArg(self.call.d).offset_first_file = None
    THEN [self EXCEPT !.at = Return,
                      !.ret = TRet("Err", "FileNotFound", NoMeta, <<>>, 0 - 1)]
  ELSE SeekU32(self, DirArg(self.call.d).offset_first_file,
               file_metadata_part_offset, "file")
Entered(self) ==
  CASE self.walk = "get_child" ->
         IF DirArg(self.call.d).offset_first_subdir = None
           THEN [self EXCEPT !.at = Return,
                             !.ret = TRet("Err", "DirNotFound", NoMeta, <<>>,
                                          0 - 1)]
         ELSE SeekU32(self, DirArg(self.call.d).offset_first_subdir,
                      dir_metadata_part_offset, "dir")
    [] self.walk = "list_file_child" ->
         IF DirArg(self.call.d).offset_first_file = None
           THEN [self EXCEPT !.at = Return,
                             !.ret = TRet("Ok", "", NoMeta, self.childs, 0 - 1)]
         ELSE [self EXCEPT !.at = SeekTo(DirArg(self.call.d).offset_first_file
                                           + file_metadata_part_offset, "file")]
    [] self.walk = "list_dir_child" ->
         IF DirArg(self.call.d).offset_first_subdir = None
           THEN [self EXCEPT !.at = Return,
                             !.ret = TRet("Ok", "", NoMeta, self.childs, 0 - 1)]
         ELSE [self EXCEPT !.at = SeekTo(DirArg(self.call.d).offset_first_subdir
                                           + dir_metadata_part_offset, "dir")]
    [] self.call.op = "read" ->
         IF build = "debug" /\ Overflows(self.call.nb, self.win.pointer)
           THEN [self EXCEPT !.at = Return,
                             !.ret = TRet("Panic", "add overflow", NoMeta,
                                          <<>>, 0 - 1)]
         ELSE IF WrapAdd(self.call.nb, self.win.pointer) >= self.win.end
           THEN IF build = "debug" /\ self.win.end < self.win.pointer
                  THEN [self EXCEPT !.at = Return,
                                    !.ret = TRet("Panic", "subtract overflow",
                                                 NoMeta, <<>>, 0 - 1)]
                ELSE IF self.win.end = self.win.pointer
                  THEN [self EXCEPT !.at = Return,
                                    !.ret = TRet("Ok", "", NoMeta, <<>>, 0)]
                ELSE [self EXCEPT !.at = ReadByte,
                                  !.loop_total_nb =
                                    (self.win.end - self.win.pointer)
                                      % UsizeMod]
         ELSE [self EXCEPT !.at = ReadBuf]
    [] self.call.op \in {"seek", "open"} ->
         The({IF new < 0
                THEN [self EXCEPT !.at = Return,
                                  !.ret = TRet("Panic", "add overflow", NoMeta,
                                               <<>>, 0 - 1)]
              ELSE IF new < self.win.start
                THEN [self EXCEPT !.at = Return,
                                  !.ret = TRet("Err", "InvalidInput", NoMeta,
                                               <<>>, 0 - 1)]
              ELSE [self EXCEPT !.at = SeekTo(new, "return"),
                                !.ret = TRet("Ok", "", NoMeta, <<>>,
                                             new - self.win.start)] :
              new \in {new_real_pos(build, self.win.start, self.win.end,
                                    self.win.pointer,
                                    Start(self.call.nb))}})

\* `let mut file = match self.file.lock()`: the thread waits until the lock
\* is free; a poisoned lock is an error at once
Lock(t) ==
  /\ thr[t].pc = "lock"
  /\ IF lock_is_err
       THEN /\ thr' = [thr EXCEPT ![t].pc = "ret",
                                  ![t].ret = TRet("Err", "Poisoned", NoMeta,
                                                  <<>>, 0 - 1)]
            /\ UNCHANGED mutex
     ELSE /\ lock_is_free
          /\ mutex' = [mutex EXCEPT !.holder = t]
          /\ thr' = [thr EXCEPT ![t] = [Entered(thr[t]) EXCEPT
                                          !.pc = "held", !.holds = @ + 1]]
  /\ UNCHANGED <<img, build, file, part, mfile, wins, lpos, got, iter, ncsd,
                 pipe, res, crashed>>

\* what the holder does with the record it has read from the chain
Walked(self, rec, pos) ==
  CASE self.walk = "get_child" /\ self.at.then = "dir" ->
         IF rec.meta.name = <<self.call.name>>
           THEN [self EXCEPT !.at = Return,
                             !.ret = TRet("Dir", "", rec.meta, <<>>, 0 - 1)]
         ELSE IF rec.meta.offset_next_sibling # None
           THEN SeekU32(self, rec.meta.offset_next_sibling,
                        dir_metadata_part_offset, "dir")
         ELSE get_child_files(self)
    [] self.walk = "get_child" /\ self.at.then = "file" ->
         IF rec.meta.name = self.call.name
           THEN [self EXCEPT !.at = Return,
                             !.ret = TRet("File", "", rec.meta, <<>>, 0 - 1)]
         ELSE IF rec.meta.offset_sibling # None
           THEN SeekU32(self, rec.meta.offset_sibling,
                        file_metadata_part_offset, "file")
         ELSE [self EXCEPT !.at = Return,
                           !.ret = TRet("Err", "FileNotFound", NoMeta, <<>>,
                                        0 - 1)]
    [] self.walk = "list_file_child" ->
         IF rec.meta.offset_sibling # None
           THEN [self EXCEPT !.childs = Append(@, rec.meta.name),
                             !.at = SeekTo(rec.meta.offset_sibling
                                             + file_metadata_part_offset,
                                           "file")]
         ELSE [self EXCEPT !.childs = Append(@, rec.meta.name),
                           !.at = Return,
                           !.ret = TRet("Ok", "", NoMeta,
                                        Append(self.childs, rec.meta.name),
                                        0 - 1)]
    [] self.walk = "list_dir_child" ->
         IF rec.meta.offset_next_sibling # None
           THEN [self EXCEPT !.childs = Append(@, rec.meta.name[1]),
                             !.at = SeekTo(rec.meta.offset_next_sibling
                                             + dir_metadata_part_offset, "dir")]
         ELSE [self EXCEPT !.childs = Append(@, rec.meta.name[1]),
                           !.at = Return,
                           !.ret = TRet("Ok", "", NoMeta,
                                        Append(self.childs, rec.meta.name[1]),
                                        0 - 1)]

\* one access of the source by the thread that has the guard
Access(t) ==
  /\ thr[t].pc = "held"
  /\ thr[t].at.do # "return"
  /\ CASE thr[t].at.do = "seek" ->
            /\ mfile' = thr[t].at.to
            /\ thr' = [thr EXCEPT ![t].at =
                         IF thr[t].at.then = "return" THEN Return
                         ELSE ReadRecord(thr[t].at.then)]
       [] thr[t].at.do = "record" ->
            \E rec \in {IF thr[t].at.then = "dir" THEN DirAt(mfile)
                        ELSE FileAt(mfile)} :
               /\ mfile' = rec.file
               /\ thr' = [thr EXCEPT ![t] =
                            [Walked(thr[t], rec, mfile) EXCEPT
                               !.visited = Append(@, mfile)]]
       [] thr[t].at.do = "buf" ->
            \E r \in {SrcRead(mfile, thr[t].call.nb)} :
               /\ mfile' = r.pos
               /\ thr' = [thr EXCEPT
                            ![t].at = Return,
                            ![t].ret = TRet("Ok", "", NoMeta, r.data, r.n)]
       [] thr[t].at.do = "byte" ->
            IF Avail(mfile) = 0
              THEN /\ mfile' = mfile
                   /\ thr' = [thr EXCEPT
                                ![t].at = SeekTo(WrapAdd(thr[t].win.start,
                                                         thr[t].win.pointer),
                                                 "return"),
                                ![t].ret = TRet("Err", "UnexpectedEof", NoMeta,
                                                <<>>, 0 - 1)]
            ELSE IF thr[t].loop_nb >= thr[t].call.nb
              THEN /\ mfile' = mfile + 1
                   /\ thr' = [thr EXCEPT
                                ![t].win.pointer = WrapAdd(@, 1),
                                ![t].at = Return,
                                ![t].ret = TRet("Panic", "index out of bounds",
                                                NoMeta, <<>>, 0 - 1)]
            ELSE /\ mfile' = mfile + 1
                 /\ thr' = [thr EXCEPT
                              ![t].win.pointer = WrapAdd(@, 1),
                              ![t].loop_nb = @ + 1,
                              ![t].buf = Append(@, Content(mfile)),
                              ![t].at =
                                IF thr[t].loop_nb + 1 >= thr[t].loop_total_nb
                                  THEN Return ELSE ReadByte,
                              ![t].ret =
                                IF thr[t].loop_nb + 1 >= thr[t].loop_total_nb
                                  THEN TRet("Ok", "", NoMeta,
                                            Append(thr[t].buf, Content(mfile)),
                                            thr[t].loop_total_nb)
                                ELSE NoTRet]
  /\ UNCHANGED <<img, build, file, part, mutex, wins, lpos, got, iter, ncsd,
                 pipe, res, crashed>>

\* the MutexGuard goes out of scope: the lock is free again
leak_guard(holder, t) == holder
drop_guard(holder, t) == IF holder = t THEN "-" ELSE holder

\* the function returns and the guard is dropped (a guard dropped by a panic
\* poisons the lock); list_child goes on to list_dir_child when
\* list_file_child has returned Ok
Unlock(t) ==
  /\ thr[t].pc = "held"
  /\ thr[t].at.do = "return"
  /\ mutex' = [holder |-> drop_guard(mutex.holder, t),
               poisoned |-> mutex.poisoned \/ thr[t].ret.kind = "Panic"]
  /\ thr' = [thr EXCEPT ![t] =
               IF thr[t].walk = "list_file_child" /\ thr[t].ret.kind = "Ok"
                 THEN [thr[t] EXCEPT !.pc = "lock", !.walk = "list_dir_child",
                                     !.ret = NoTRet]
               ELSE [thr[t] EXCEPT !.pc = "ret"]]
  /\ UNCHANGED <<img, build, file, part, mfile, wins, lpos, got, iter, ncsd,
                 pipe, res, crashed>>

\* the caller has the result and goes on (a thread that panicked does not);
\* a file that could not be opened is not held
Done(t) ==
  /\ thr[t].pc = "ret"
  /\ thr[t].ret.kind # "Panic"
  /\ thr' = [thr EXCEPT ![t] =
               Idle(IF thr[t].call.op = "open" /\ thr[t].ret.kind # "Ok"
                      THEN NoWin ELSE thr[t].win)]
  /\ UNCHANGED <<img, build, file, part, mfile, mutex, wins, lpos, got, iter,
                 ncsd, pipe, res, crashed>>

\* the calls the threads make: t1 looks names up and lists directories, t2
\* opens the files of the image, seeks the file it holds and reads it with a
\* buffer as long as the longest file (each such read runs the tail loop)
Calls(t) ==
  IF t = "t1"
    THEN {TCall("get_child", d, name, 0, 0) : d \in 0..img.nd, name \in Names}
           \cup {TCall("list_child", d, "", 0, 0) : d \in 0..img.nd}
  ELSE {TCall("open", 0, "", j, 0) : j \in 1..img.nf}
         \cup {TCall("read", 0, "", 0, n) : n \in {MaxBuf}}
         \cup {TCall("seek", 0, "", 0, k) : k \in {0, MaxSeek}}

InitThreads ==
  /\ img \in Images
  /\ build \in Builds
  /\ mfile = DirectoryMetadata_new(dir_metadata_part_offset, TRUE).file
  /\ wins = [w \in {} |-> NoWin]
  /\ got = NoSession
  /\ iter = NoIter
  /\ ncsd = NoNcsd
  /\ pipe = NoPipe
  /\ mutex = Unlocked
  /\ thr = [t \in Threads |-> Idle(NoWin)]
  /\ file = 0
  /\ part = NoWin
  /\ lpos = [w \in {"P", "A"} |-> 0]
  /\ res = NoCall
  /\ crashed = FALSE

NextThreads ==
  \/ \E t \in Threads : \E call \in Calls(t) : Invoke(t, call)
  \/ \E t \in Threads : Lock(t)
  \/ \E t \in Threads : Access(t)
  \/ \E t \in Threads : Unlock(t)
  \/ \E t \in Threads : Done(t)

SpecThreads == InitThreads /\ [][NextThreads]_vars

\* the two threads on an image whose nodes are all in the root, in the build
\* with overflow checks, under fair scheduling: a thread that holds the lock goes
\* on to its return, a thread that has its result takes it, and a thread that
\* waits for the lock gets it if it is free again and again
InitFair ==
  /\ InitThreads
  /\ build = "debug"
  /\ \A i \in 1..img.nd : img.dparent[i] = 0
  /\ \A j \in 1..img.nf : img.fparent[j] = 0

SpecFair ==
  /\ InitFair
  /\ [][NextThreads]_vars
  /\ \A t \in Threads :
        /\ WF_vars(Access(t) \/ Unlock(t) \/ Done(t))
        /\ SF_vars(Lock(t))

\* the images with one more: each image that has a directory, with its last
\* directory record at the far end of the directory table
FarImages == {[i EXCEPT !.kind = "far"] : i \in {i \in Images : i.nd >= 1}}

InitWalk ==
  /\ img \in Images \cup FarImages
  /\ build \in Builds
  /\ mfile = DirectoryMetadata_new(dir_metadata_part_offset, TRUE).file
  /\ wins = [w \in {} |-> NoWin]
  /\ got = NoSession
  /\ iter = NoIter
  /\ ncsd = NoNcsd
  /\ pipe = NoPipe
  /\ mutex = Unlocked
  /\ thr = [t \in Threads |-> Idle(NoWin)]
  /\ file = 0
  /\ part = NoWin
  /\ lpos = [w \in {"P", "A"} |-> 0]
  /\ res = NoCall
  /\ crashed = FALSE

\* one thread alone on the reader: the lock is free whenever it asks for it,
\* and the thread goes on running
NextWalk ==
  \/ \E call \in Calls("t1") : Invoke("t1", call)
  \/ Lock("t1")
  \/ Access("t1")
  \/ Unlock("t1")
  \/ Done("t1")

SpecWalk == InitWalk /\ [][NextWalk]_vars /\ WF_vars(NextWalk)



\* ======================================================================
\* The claims
\* ======================================================================
InWindow(w, o) == w.start <= o /\ o < w.end
\* the bytes in `data` are the source's bytes from offset `from` on
BeginsAt(data, from) == \A i \in DOMAIN data : data[i] = Content(from + i - 1)

\* C1: no public operation ever panics: every call returns a value or an
\* error, also a read issued while pointer > end after a seek past the end.
C1_NoPanic == res.out.kind # "Panic" /\ res.twin.kind # "Panic" /\ ~crashed

\* C2: on a shared window that is the only user of its source, no read
\* delivers a byte outside [start, start + length), and a read(buf) returns
\* exactly min(buf.len(), max(0, end - p)) bytes, p being the position the
\* window's previous seeks and reads established.
C2_SharedReadBounded ==
  (res.who = "A" /\ res.op = "read") =>
    /\ \A i \in DOMAIN res.out.data : InWindow(wins["A"], res.out.data[i])
    /\ res.out.kind = "Ok" =>
         res.out.val = Min(res.arg.nb, Max(0, wins["A"].end - res.before))

\* C3: with two shared windows on one source, under every interleaving of
\* their calls, each read on A returns the source bytes at A's own position.
C3_OwnPosition ==
  (res.who = "A" /\ res.op = "read") => BeginsAt(res.out.data, res.before)

\* the bytes the image stores for the file of record meta
StoredBytes(meta) ==
  [i \in 1..meta.lenght_file_data |->
     Content(file_data_offset + meta.offset_file_data + i - 1)]

\* C4: a file opened through a path and read with non-empty buffers, by a
\* client that makes no other call on the image, has delivered, when a read
\* returns 0, exactly metadata(P).len bytes: the bytes stored at
\* file_data_base + file_data_offset.
C4_ReadToEnd ==
  (/\ res.who = "A" /\ res.op = "read" /\ res.arg.nb > 0
   /\ res.out.kind = "Ok" /\ res.out.val = 0 /\ got.open /\ got.alone) =>
    got.bytes = StoredBytes(got.meta)

\* C5: Partition and PartitionMutex have identical semantics: given the same
\* bytes, (start, length) and calls, every call returns the same result and
\* leaves the same pointer.
C5_SameSemantics ==
  res.who = "pair" =>
    /\ res.out.kind = res.twin.kind
    /\ res.out.val = res.twin.val
    /\ res.out.err = res.twin.err
    /\ res.out.kind = "Ok" => res.out.data = res.twin.data
    /\ part.pointer = wins["A"].pointer

\* C6: on either window variant a successful seek(Start(k)) returns exactly k
\* and leaves the source at start + k, and the read that follows it on that
\* window delivers the bytes that begin at offset start + k.
C6_SeekStart ==
  /\ (res.who = "pair" /\ res.op = "seek" /\ res.arg.kind = "Start") =>
       /\ res.out.kind = "Ok" =>
            res.out.val = res.arg.nb /\ file = part.start + res.arg.nb
       /\ res.twin.kind = "Ok" =>
            res.twin.val = res.arg.nb /\ mfile = wins["A"].start + res.arg.nb
  /\ (res.who = "pair" /\ res.op = "read" /\ res.after >= 0) =>
       /\ BeginsAt(res.out.data, part.start + res.after)
       /\ BeginsAt(res.twin.data, wins["A"].start + res.after)

\* C6 witness: a read that follows a successful seek(Start(k)), k > 0, on a
\* window that does not start at 0, and delivers bytes on both variants.
C6_Witness ==
  /\ res.who = "pair" /\ res.op = "read" /\ res.after > 0 /\ part.start > 0
  /\ Len(res.out.data) > 0 /\ Len(res.twin.data) > 0

\* the write-path calls: open_with_options with a write-enabling flag, mkdir,
\* rm, rmrf, and write on an opened file
WritePath ==
  /\ res.who = "vfs"
  /\ \/ res.op \in {"mkdir", "rm", "rmrf", "write"}
     \/ /\ res.op = "open"
        /\ res.arg.write \/ res.arg.create \/ res.arg.append \/ res.arg.truncate
Untouched == mfile = res.pre.mfile /\ wins = res.pre.wins

\* C7: every write-path call fails with PermissionDenied and leaves the
\* source's position and every window as it found them; flush on an opened
\* file succeeds.
C7_ReadOnly ==
  /\ WritePath =>
       res.ret.kind = "Err" /\ res.ret.err = "PermissionDenied" /\ Untouched
  /\ (res.who = "vfs" /\ res.op = "flush") => res.ret.kind = "Ok" /\ Untouched

\* C7 witness: with a file opened, a path that names a child of the root is
\* opened with truncate as its only flag.
C7_Witness ==
  /\ WritePath /\ res.op = "open" /\ got.open
  /\ res.arg.truncate /\ ~res.arg.write
  /\ Len(res.path) = 1 /\ metadata(res.path, mfile).kind = "Ok"

\* the tree on disk: the children of directory d that bear a name
DirsNamed(d, name) == {i \in SubDirs(d) : img.dname[i] = name}
FilesNamed(d, name) == {j \in Files(d) : img.fname[j] = name}

\* C8: get_child(dir, name) returns the first subdirectory of dir named name;
\* when there is none, also when dir has no subdirectory at all, it returns
\* the first file of dir named name.
C8_GetChild ==
  (res.who = "vfs" /\ res.op = "get_child") =>
    LET d == res.path[1]
        dirs == DirsNamed(d, res.arg.name)
        files == FilesNamed(d, res.arg.name)
    IN /\ dirs # {} =>
            res.ret.kind = "Dir" /\ res.ret.meta = DirRecord(FirstOf(dirs))
       /\ (dirs = {} /\ files # {}) =>
            res.ret.kind = "File" /\ res.ret.meta = FileRecord(FirstOf(files))

\* C9: when dir has no child named name, get_child fails with FileNotFound
\* if dir has a first-file offset and with DirNotFound if it has none.
C9_NotFoundKind ==
  (/\ res.who = "vfs" /\ res.op = "get_child"
   /\ DirsNamed(res.path[1], res.arg.name) = {}
   /\ FilesNamed(res.path[1], res.arg.name) = {}) =>
    /\ res.ret.kind = "Err"
    /\ res.ret.err =
         IF DirRecord(res.path[1]).offset_first_file = None
           THEN "DirNotFound" ELSE "FileNotFound"

\* the tree on disk: the path of every directory and of every file
RECURSIVE DirPath(_)
DirPath(i) ==
  IF i = 0 THEN <<>> ELSE Append(DirPath(img.dparent[i]), img.dname[i])
FilePath(j) == Append(DirPath(img.fparent[j]), img.fname[j])
OnDisk == {DirPath(i) : i \in 1..img.nd} \cup {FilePath(j) : j \in 1..img.nf}
\* a valid image: no two children of a directory bear the same name
ValidImage ==
  \A d \in 0..img.nd, name \in Names :
    Cardinality(DirsNamed(d, name)) + Cardinality(FilesNamed(d, name)) <= 1

\* C10: on a valid image the walk from the root visits every directory and
\* every file of the tree on disk exactly once, and nothing else.
C10_WalkVisitsTree ==
  (res.who = "vfs" /\ res.op = "walk" /\ ValidImage) =>
    LET visited == res.ret.entries
    IN /\ {visited[k] : k \in DOMAIN visited} = OnDisk
       /\ \A k, l \in DOMAIN visited : visited[k] = visited[l] => k = l

\* C10 witness: a walk of a valid image that holds a file in a subdirectory
\* of the root, and visits the two.
C10_Witness ==
  /\ res.who = "vfs" /\ res.op = "walk" /\ ValidImage
  /\ \E j \in 1..img.nf : img.fparent[j] # 0
  /\ Len(res.ret.entries) = 2


\* what a metadata call tells its caller
Told(ret) == [kind |-> ret.kind, err |-> ret.err, is_dir |-> ret.is_dir,
              len |-> ret.len]

\* C11: an absolute path resolves as its components after the leading
\* separator do from the root directory: "/" is the root directory, "/x/y"
\* is the child y of the child x of the root, and the separator itself is
\* never looked up as a name.
C11_AbsolutePaths ==
  (/\ res.who = "vfs" /\ res.op = "metadata"
   /\ res.path # <<>> /\ Head(res.path) = "/") =>
    Told(res.ret) = Told(metadata(Tail(res.path), mfile))

\* The tree on disk: what a path names, looked up from the root directory by
\* the names of the records, a subdirectory before a file of the same name.
Node(kind, idx) == [kind |-> kind, idx |-> idx]
RECURSIVE TreeLookup(_, _)
TreeLookup(node, path) ==
  IF path = <<>> THEN node
  ELSE IF node.kind # "Dir" THEN Node("None", 0)
  ELSE IF DirsNamed(node.idx, Head(path)) # {}
    THEN TreeLookup(Node("Dir", FirstOf(DirsNamed(node.idx, Head(path)))),
                    Tail(path))
  ELSE IF FilesNamed(node.idx, Head(path)) # {}
    THEN TreeLookup(Node("File", FirstOf(FilesNamed(node.idx, Head(path)))),
                    Tail(path))
  ELSE Node("None", 0)
Named(path) == TreeLookup(Node("Dir", 0), path)
Relative(path) == path = <<>> \/ Head(path) # "/"

\* C12: open_with_options without a write-enabling flag fails with
\* InvalidData on a path that names a directory; on a path that names a file
\* it returns the window with start = file_data_base + file_data_offset,
\* end = start + file_data_length and pointer = start, the source at start.
C12_OpenWindow ==
  (/\ res.who = "vfs" /\ res.op = "open" /\ res.arg = NoFlag
   /\ Relative(res.path)) =>
    LET node == Named(res.path)
        start == file_data_offset + DataOff(node.idx)
    IN /\ node.kind = "Dir" =>
            res.ret.kind = "Err" /\ res.ret.err = "InvalidData"
       /\ node.kind = "File" =>
            /\ res.ret.kind = "Ok"
            /\ res.ret.win = [start |-> start, pointer |-> start,
                              end |-> start + FileLen(node.idx)]
            /\ wins["A"] = res.ret.win
            /\ mfile = start

\* C13: metadata(p) reports a file with len = its file-data length when p
\* names a file, a directory with len 0 when p names a directory (the empty
\* path names the root), and fails with NotFound when p names nothing;
\* exists(p) is true exactly when metadata(p) succeeds.
C13_Metadata ==
  (res.who = "vfs" /\ res.op = "metadata" /\ Relative(res.path)) =>
    LET node == Named(res.path)
    IN /\ node.kind = "File" =>
            Told(res.ret) = [kind |-> "Ok", err |-> "", is_dir |-> FALSE,
                             len |-> FileLen(node.idx)]
       /\ node.kind = "Dir" =>
            Told(res.ret) = [kind |-> "Ok", err |-> "", is_dir |-> TRUE,
                             len |-> 0]
       /\ node.kind = "None" =>
            res.ret.kind = "Err" /\ res.ret.err = "NotFound"
       /\ exists(res.path, mfile) = (res.ret.kind = "Ok")

\* The get_child calls resolution is to make on a path: one per component,
\* in order, each on the directory the one before returned, from the root
\* directory on, and none after a call that failed or returned a file.
RECURSIVE Lookups(_, _, _)
Lookups(dir, path, fpos) ==
  IF path = <<>> THEN <<>>
  ELSE The({IF child.kind = "Dir"
              THEN <<child>> \o Lookups(child.meta, Tail(path), child.file)
              ELSE <<child>> :
            child \in {get_child(dir, Head(path), fpos)}})

\* C14: resolution makes these calls and no other; it fails with
\* TryGetChildFile when a component that is not the last one gave a file,
\* with the failure of get_child when a call failed, and otherwise returns
\* what get_child returned for the last component (the root directory for the
\* empty path).  The source is where the last call left it (a call that
\* fails at once leaves it where it was, as the others of the state do).
C14_Resolution ==
  (res.who = "vfs" /\ res.op = "get_internal_meta") =>
    LET calls == Lookups(first_dir_metadata, res.path, mfile)
        last == calls[Len(calls)]
    IN IF res.path = <<>>
         THEN res.ret = Found("Dir", first_dir_metadata, mfile)
       ELSE IF last.kind = "Err"
         THEN res.ret = Failed("IVFCError", last.err, last.file)
       ELSE IF Len(calls) < Len(res.path)
         THEN /\ last.kind = "File"
              /\ res.ret = Failed("TryGetChildFile", "", last.file)
       ELSE res.ret = last

\* C14 witness: a path of two components whose first component gave a file.
C14_Witness ==
  /\ res.who = "vfs" /\ res.op = "get_internal_meta" /\ Len(res.path) = 2
  /\ res.ret.err = "TryGetChildFile"

\* C15: metadata, open_with_options without a write flag and read_dir fail
\* with NotFound on a path that names nothing; open_with_options on a
\* directory and read_dir on a file fail with InvalidData.
C15_ErrorKinds ==
  (/\ res.who = "vfs" /\ Relative(res.path)
   /\ \/ res.op \in {"metadata", "read_dir"}
      \/ res.op = "open" /\ res.arg = NoFlag) =>
    LET node == Named(res.path)
    IN /\ node.kind = "None" =>
            res.ret.kind = "Err" /\ res.ret.err = "NotFound"
       /\ (node.kind = "Dir" /\ res.op = "open") =>
            res.ret.kind = "Err" /\ res.ret.err = "InvalidData"
       /\ (node.kind = "File" /\ res.op = "read_dir") =>
            res.ret.kind = "Err" /\ res.ret.err = "InvalidData"

\* the sibling chains as the records link them: from a head offset, along
\* offset_sibling / offset_next_sibling, to the record that has none
RECURSIVE FileChainFrom(_)
FileChainFrom(off) ==
  IF off = None THEN <<>>
  ELSE LET j == CHOOSE k \in 1..img.nf : FileOff(k) = off
       IN <<img.fname[j]>> \o FileChainFrom(FileRecord(j).offset_sibling)
RECURSIVE DirChainFrom(_)
DirChainFrom(off) ==
  IF off = None THEN <<>>
  ELSE LET i == CHOOSE k \in 1..img.nd : DirOff(k) = off
       IN <<img.dname[i]>> \o DirChainFrom(DirRecord(i).offset_next_sibling)
ChildNames(d) ==
  FileChainFrom(DirRecord(d).offset_first_file)
    \o DirChainFrom(DirRecord(d).offset_first_subdir)
Joined(path, names) == [k \in DOMAIN names |-> Append(path, names[k])]

\* C16: list_child(dir) returns the names of dir's file chain in chain order,
\* then the names of its subdirectory chain in chain order (nothing for an
\* absent head).  read_dir(p) on a path that resolves to a directory
\* succeeds, and its iterator yields p joined with each of these names, one
\* per step and in that order, then None; the names are those of the time of
\* the call, whatever calls are made between the steps.
C16_Listing ==
  /\ (res.who = "vfs" /\ res.op = "list_child") =>
       res.ret.kind = "Ok" /\ res.ret.names = ChildNames(res.path[1])
  /\ (/\ res.who = "vfs" /\ res.op = "read_dir"
      /\ Relative(res.path) /\ Named(res.path).kind = "Dir") =>
       /\ res.ret.kind = "Ok"
       /\ res.ret.entries =
            Joined(res.path, ChildNames(Named(res.path).idx))
       /\ iter.held /\ iter.child_of = res.path /\ iter.yielded = <<>>
  /\ iter.held =>
       /\ Relative(iter.child_of) /\ Named(iter.child_of).kind = "Dir"
       /\ LET all == Joined(iter.child_of,
                            ChildNames(Named(iter.child_of).idx))
              n == Len(iter.yielded)
          IN /\ n <= Len(all)
             /\ iter.yielded = SubSeq(all, 1, n)
             /\ Joined(iter.child_of, iter.child_iterator)
                  = SubSeq(all, n + 1, Len(all))
             /\ (res.who = "vfs" /\ res.op = "next") =>
                  IF res.ret.kind = "Some"
                    THEN n >= 1 /\ res.ret.entries = <<all[n]>>
                  ELSE res.ret.kind = "None" /\ n = Len(all)

\* a directory with a file and a subdirectory has been listed to its end
C16_Witness ==
  /\ res.who = "vfs" /\ res.op = "next" /\ res.ret.kind = "None"
  /\ iter.child_of = <<>>
  /\ Files(0) # {} /\ SubDirs(0) # {}
  /\ Len(iter.yielded) = 2

\* the absolute position a seek target stands for in a window: an offset from
\* start, from end, or from the current position
Resolved(win, target) ==
  CASE target.kind = "Start" -> win.start + target.nb
    [] target.kind = "End" -> win.end + target.nb
    [] target.kind = "Current" -> win.pointer + target.nb

\* C17: on either variant and for every kind of target, a seek whose resolved
\* position is below start (negative included) fails with InvalidInput, does
\* not seek the source and leaves pointer unchanged.
C17_SeekBeforeStart ==
  [][(res'.op = "seek" /\ res'.who = "pair") =>
       /\ Resolved(part, res'.arg) < part.start =>
            /\ res'.out.kind = "Err" /\ res'.out.err = "InvalidInput"
            /\ file' = file /\ part'.pointer = part.pointer
       /\ Resolved(wins["A"], res'.arg) < wins["A"].start =>
            /\ res'.twin.kind = "Err" /\ res'.twin.err = "InvalidInput"
            /\ mfile' = mfile /\ wins'["A"].pointer = wins["A"].pointer]_vars

\* C18: a seek to a position beyond end succeeds, and a read issued while the
\* position is beyond end, with a buffer of any length, returns 0 bytes or
\* the source's error and delivers no byte of the source.
C18_ReadBeyondEnd ==
  /\ (/\ res.who = "P" /\ res.op = "seek" /\ res.arg.kind = "Start"
      /\ part.start + res.arg.nb > part.end) => res.out.kind = "Ok"
  /\ (res.who = "P" /\ res.op = "read" /\ res.before > part.end) =>
       /\ res.out.data = <<>>
       /\ \/ res.out.kind = "Err"
          \/ res.out.kind = "Ok" /\ res.out.val = 0

\* C19: on a freshly constructed Partition whose window lies within the
\* source, successive reads deliver the window's bytes in order, writing only
\* the bytes they return; a read whose buffer is at least end - pointer long
\* returns exactly end - pointer bytes and leaves pointer = end, and every
\* later read returns 0 bytes and writes nothing.
C19_FreshReads ==
  (res.who = "P" /\ res.op = "read" /\ part.end <= SourceLen) =>
    /\ res.out.kind = "Ok"
    /\ Len(res.out.data) = res.out.val
    /\ BeginsAt(res.out.data, res.before)
    /\ part.pointer = res.before + res.out.val
    /\ res.out.val = Min(res.arg.nb, part.end - res.before)
    /\ res.arg.nb >= part.end - res.before => part.pointer = part.end

\* a read with a buffer longer than what is left has returned the last bytes
C19_Witness ==
  /\ res.who = "P" /\ res.op = "read" /\ part.end <= SourceLen
  /\ res.out.val > 0 /\ res.arg.nb > res.out.val
  /\ res.before > part.start
  /\ part.pointer = part.end

\* C20: NCSDReader::new on a source that holds the magic fails with
\* InvalidMagic, carrying the four bytes, exactly when they are not "NCSD",
\* whatever the other fields hold; with the magic valid and the header held
\* up to the crypt type, it fails with EncryptedRom exactly when a crypt-type
\* byte is non-zero.  In both cases there is no reader and no window.
C20_MagicAndCrypt ==
  (res.who = "ncsd" /\ res.op = "NCSDReader::new") =>
    /\ img.len >= 260 =>
         /\ (res.ret.kind = "Err" /\ res.ret.err = "InvalidMagic")
              <=> img.magic # NCSD
         /\ res.ret.err = "InvalidMagic" => res.ret.magic = img.magic
    /\ (img.len >= 288 /\ img.magic = NCSD) =>
         (res.ret.kind = "Err" /\ res.ret.err = "EncryptedRom")
           <=> img.crypt # Zeros
    /\ res.ret.err \in {"InvalidMagic", "EncryptedRom"} =>
         ~ncsd.made /\ part = NoWin

\* the bytes a u32 count of sectors stands for in a reader that was returned
SectorBytes(sectors) == (sectors * Sector) % U32Mod

\* C21: load_partition(n) fails with InexistingPartition(n) when n >= 8 or
\* record n has byte offset 0, and constructs nothing; otherwise it returns
\* the window with start = the record's byte offset, end = offset + length
\* and pointer = start, over the source positioned at start.  The reader is
\* consumed either way.
C21_LoadPartition ==
  (res.who = "ncsd" /\ res.op = "load_partition") =>
    LET n == res.arg.nb
    IN /\ ~ncsd.made
       /\ IF n >= 8 \/ SectorBytes(img.table[n + 1].offset) = 0
            THEN /\ res.ret.kind = "Err"
                 /\ res.ret.err = "InexistingPartition" /\ res.ret.nb = n
                 /\ part = NoWin
          ELSE LET offset == SectorBytes(img.table[n + 1].offset)
                   lenght == SectorBytes(img.table[n + 1].lenght)
               IN /\ res.ret.kind = "Ok"
                  /\ part = [start |-> offset, pointer |-> offset,
                             end |-> offset + lenght]
                  /\ file = offset

\* a partition with bytes in it has been loaded
C21_Witness ==
  /\ res.who = "ncsd" /\ res.op = "load_partition" /\ res.ret.kind = "Ok"
  /\ part.start > 0 /\ part.end > part.start /\ file = part.start

\* C22: get_romfs_vfs runs its stages in the order NCSD parse,
\* load_partition(0), NCCH parse, get_romfs, IVFC parse, VFS wrap; the first
\* stage that does not return Ok is the last one run; the error returned is
\* the GetRomfsError variant of that stage's layer, with the stage's own
\* error as its cause; Ok is returned only when all six have run.
NcsdErrors ==
  {"SignatureReadError", "MagicReadError", "InvalidMagic", "ReadSizeError",
   "MediaIDReadError", "PartitionTypeReadError", "CryptTypeReadError",
   "EncryptedRom", "ReadPartitionOffsetError", "ReadPartitionLenghtError",
   "ReadExHeaderHashError", "ReadAdditionalHeaderSizeError",
   "SectorZeroOffsetReadError", "PartitionFlagReadError",
   "PartitionIdReadError", "InexistingPartition", "CreatePartitionFail"}
NcchErrors ==
  {"ReadNCCHSignatureError", "ReadMagicError", "InvalidMagic",
   "SizeReadError", "PartitionIdReadError", "MakerCodeReadError",
   "VersionReadError", "FlagsSeekError", "FlagsReadError", "OffsetReadError",
   "LenghtReadError", "OffsetSeekError", "CreatePartitionError"}
IvfcErrors ==
  {"ReadError", "SeekError", "FirstMagicError", "SecondMagicError",
   "Level3HeaderLenghtInvalid"}
IsPrefix(s, t) == Len(s) <= Len(t) /\ \A i \in 1..Len(s) : s[i] = t[i]
WindowsMade(ran, ret) ==
  Cardinality({i \in 1..Len(ran) :
                 /\ ran[i] \in {"load_partition", "get_romfs"}
                 /\ (i < Len(ran) \/ ret.kind \in {"None", "Ok"})})
C22_Pipeline ==
  /\ IsPrefix(pipe.ran, Stages)
  /\ Len(pipe.ws) = WindowsMade(pipe.ran, pipe.ret)
  /\ IF pipe.pc # "returned"
       THEN pipe.ret.kind = "None" /\ pipe.pc = Stages[Len(pipe.ran) + 1]
     ELSE LET last == pipe.ran[Len(pipe.ran)] IN
       CASE pipe.ret.kind = "Ok" -> pipe.ran = Stages
         [] pipe.ret.kind = "Panic" -> crashed
         [] pipe.ret.kind = "Err" ->
              /\ last \in {"NCSDReader::new", "load_partition"} =>
                   /\ pipe.ret.err = "ReadNcsdError"
                   /\ pipe.ret.cause \in NcsdErrors
              /\ last \in {"NCCHReader::new", "get_romfs"} =>
                   /\ pipe.ret.err = "ReadNcchError"
                   /\ pipe.ret.cause \in NcchErrors
              /\ last = "IVFCReader::new" =>
                   /\ pipe.ret.err = "ReadIVFCError"
                   /\ pipe.ret.cause \in IvfcErrors
              /\ last # "IVFCVFS::new"
              /\ last = "NCSDReader::new" =>
                   /\ NCSDReader_new(build).kind = "Err"
                   /\ pipe.ret.cause = NCSDReader_new(build).err
                   /\ file = 0
  /\ (pipe.ran # <<>> /\ NCSDReader_new(build).kind # "Ok") =>
       pipe.ran = <<"NCSDReader::new">> /\ pipe.pc = "returned"
C22_Witness ==
  /\ pipe.pc = "returned" /\ pipe.ret.kind = "Err"
  /\ pipe.ret.err = "ReadIVFCError" /\ pipe.ret.cause = "FirstMagicError"
  /\ Len(pipe.ran) = 5 /\ Len(pipe.ws) = 2

\* C23: once the mutex is poisoned, every later operation that needs the lock
\* returns an error and leaves the mutex, the source and every window's
\* pointer as they were, and none panics: read and seek on the opened file
\* return an io::Error of kind Other; get_child and list_child return
\* Poisoned; read_dir and open on a path other than the root return Other and
\* metadata NotFound; exists, which returns a bool, returns false.
C23_Poisoned ==
  [][mutex.poisoned =>
       /\ ~crashed' /\ mutex' = mutex /\ mfile' = mfile /\ wins' = wins
       /\ res'.who = "A" => res'.out.kind = "Err" /\ res'.out.err = "Other"
       /\ res'.who = "vfs" =>
            CASE res'.op \in {"get_child", "list_child"} ->
                   res'.ret.kind = "Err" /\ res'.ret.err = "Poisoned"
              [] res'.op = "read_dir" ->
                   res'.ret.kind = "Err" /\ res'.ret.err = "Other"
              [] res'.op = "open" /\ res'.path # <<>> ->
                   res'.ret.kind = "Err" /\ res'.ret.err = "Other"
              [] res'.op = "metadata" /\ res'.path # <<>> ->
                   res'.ret.kind = "Err" /\ res'.ret.err = "NotFound"
              [] res'.op = "exists" /\ res'.path # <<>> ->
                   res'.ret.kind = "false"
              [] OTHER -> TRUE]_vars
C23_Witness ==
  /\ mutex.poisoned /\ got.open
  /\ res.who = "A" /\ res.op = "read" /\ res.out.kind = "Err"

\* C24: on either window variant, a successful seek leaves the source at the
\* position p it resolved, the window's pointer at p, and returns p - start.
C24_SeekResult ==
  (res.who = "pair" /\ res.op = "seek") =>
    /\ res.out.kind = "Ok" =>
         /\ file = res.out.file /\ part.pointer = file
         /\ res.out.val = file - part.start
    /\ res.twin.kind = "Ok" =>
         /\ mfile = res.twin.file /\ wins["A"].pointer = mfile
         /\ res.twin.val = mfile - wins["A"].start

\* C25: a seek that succeeds has moved to start + k for Start(k), to end + d
\* for End(d) and to pointer + d for Current(d), pointer being the window's
\* absolute position before the call, and returns that position minus start;
\* so Current(0) leaves the position where it was.  (Targets that stand for a
\* position below start are C17's.)
C25_Resolution ==
  [][(/\ res'.who = "P" /\ res'.op = "seek" /\ res'.out.kind = "Ok"
      /\ Resolved(part, res'.arg) >= part.start) =>
       /\ file' = Resolved(part, res'.arg)
       /\ part'.pointer = Resolved(part, res'.arg)
       /\ res'.out.val = Resolved(part, res'.arg) - part.start]_vars

\* C26: on either variant, a read whose buffer fits in the remaining window
\* (pointer + buf.len() < end) and that returns Ok(n) has advanced pointer by
\* n, and pointer is the source's position afterwards.
C26_DelegatedRead ==
  [][(res'.who = "pair" /\ res'.op = "read") =>
       /\ (/\ part.pointer + res'.arg.nb < part.end
           /\ res'.out.kind = "Ok") =>
            /\ part'.pointer = part.pointer + res'.out.val
            /\ part.pointer = file => part'.pointer = file'
       /\ (/\ wins["A"].pointer + res'.arg.nb < wins["A"].end
           /\ res'.twin.kind = "Ok") =>
            /\ wins'["A"].pointer = wins["A"].pointer + res'.twin.val
            /\ wins["A"].pointer = mfile => wins'["A"].pointer = mfile']_vars

\* C27: a read that fails in the byte-by-byte loop after j bytes returns the
\* error with pointer at its value before the read plus j, and the source is
\* left at that position, whatever the window's start.
C27_TailFailure ==
  [][(res'.who = "P" /\ res'.op = "read" /\ res'.out.kind = "Err") =>
       /\ part'.pointer = part.pointer + Len(res'.out.data)
       /\ file' = part'.pointer]_vars

\* C28: on both variants construction leaves pointer = start, start <= end
\* and the source at start; every seek and read, successful or failed, leaves
\* start and end as they were, with start <= pointer and start <= end.
C28_WindowInvariant ==
  /\ part.pointer = part.start /\ part.start <= part.end /\ file = part.start
  /\ wins["A"].pointer = wins["A"].start /\ wins["A"].start <= wins["A"].end
  /\ mfile = wins["A"].start
  /\ [][/\ part'.start = part.start /\ part'.end = part.end
        /\ part'.start <= part'.pointer /\ part'.start <= part'.end
        /\ wins'["A"].start = wins["A"].start
        /\ wins'["A"].end = wins["A"].end
        /\ wins'["A"].start <= wins'["A"].pointer
        /\ wins'["A"].start <= wins'["A"].end]_vars

\* C29: the single mutex serializes the operations on the shared source: a
\* thread accesses the source only while it holds the lock, no two threads
\* hold it together, each window read (its whole tail loop), each window
\* seek and each get_child, list_file_child and list_dir_child walk takes the
\* lock once, and what get_child(dir, name) and list_child(dir) return is
\* what they return on the image when nothing else runs.
C29_Serialized ==
  /\ \A t \in Threads : thr[t].pc = "held" <=> mutex.holder = t
  /\ \A t \in Threads : \A u \in Threads \ {t} :
        ~(thr[t].pc = "held" /\ thr[u].pc = "held")
  /\ \A t \in Threads :
        thr[t].pc = "ret" =>
          /\ thr[t].holds = IF thr[t].walk = "list_dir_child" THEN 2 ELSE 1
          /\ thr[t].call.op = "get_child" =>
                \E alone \in {get_child(DirArg(thr[t].call.d),
                                        thr[t].call.name, 0)} :
                   /\ thr[t].ret.kind = alone.kind
                   /\ thr[t].ret.err = alone.err
                   /\ thr[t].ret.meta = alone.meta
          /\ thr[t].call.op = "list_child" =>
                \E alone \in {list_child(DirArg(thr[t].call.d), 0)} :
                   /\ thr[t].ret.kind = alone.kind
                   /\ thr[t].ret.names = alone.names

\* t1 has listed the files of a directory and waits for the lock to list its
\* subdirectories, while t2 holds the lock in the middle of a tail loop
C29_Witness ==
  /\ thr # NoThreads
  /\ thr["t1"].pc = "lock" /\ thr["t1"].walk = "list_dir_child"
  /\ thr["t1"].childs # <<>>
  /\ thr["t2"].pc = "held" /\ thr["t2"].at.do = "byte"
  /\ thr["t2"].loop_nb >= 1

\* C30: on an image whose sibling chains are acyclic and end on the sentinel
\* every get_child and list_child call returns, with its result or with an
\* error, and has read no record of the chains it walked twice.
C30_Terminates ==
  /\ [](\A i \in 1..Len(thr["t1"].visited) :
          \A k \in 1..Len(thr["t1"].visited) :
             thr["t1"].visited[i] = thr["t1"].visited[k] => i = k)
  /\ [](thr["t1"].pc = "ret" =>
          thr["t1"].ret.kind \in {"Dir", "File", "Ok", "Err"})
  /\ (thr["t1"].pc = "lock" ~> thr["t1"].pc = "ret")

\* C31: every sector count of the header is stored as its byte count,
\* s * 0x200 exactly and without wrap-around: the size of the image and the
\* offset and length of each partition record of the reader that
\* NCSDReader::new returns, and the call does not fail on the product.
C31_ExactBytes ==
  /\ ncsd.made =>
        /\ ncsd.size = img.size * Sector
        /\ \A k \in 1..8 :
              /\ ncsd.partitions[k].offset = img.table[k].offset * Sector
              /\ ncsd.partitions[k].lenght = img.table[k].lenght * Sector
  /\ res.op = "NCSDReader::new" => res.ret.kind # "Panic"

\* C32: IVFCReader::new tests the first magic, the second magic and the
\* level-3 header length in this order and fails at the first that differs,
\* with the error that carries the value found; when all three are right and
\* the source holds the header and the root's record it returns the reader,
\* whose three bases are 0x1000 plus the relative offsets and whose root is
\* the record parsed at the directory base, without a name.
C32_HeaderChecks ==
  res.op = "IVFCReader::new" =>
    IF img.len >= 4 /\ img.magic_1 # IVFC
      THEN res.ret.kind = "Err" /\ res.ret.err = "FirstMagicError"
           /\ res.ret.val = img.magic_1
    ELSE IF img.len >= 8 /\ img.magic_2 # Magic2
      THEN res.ret.kind = "Err" /\ res.ret.err = "SecondMagicError"
           /\ res.ret.val = img.magic_2
    ELSE IF /\ img.len >= offset_table_3 + 4
            /\ img.level_3_header_lenght # level_3_header_lenght
      THEN res.ret.kind = "Err" /\ res.ret.err = "Level3HeaderLenghtInvalid"
           /\ res.ret.val = img.level_3_header_lenght
    ELSE IF img.len >= offset_table_3 + level_3_header_lenght + 44
      THEN /\ res.ret.kind = "Ok"
           /\ res.ret.dir_metadata_part_offset =
                offset_table_3 + img.relative_offset_dir_metadata
           /\ res.ret.file_metadata_part_offset =
                offset_table_3 + img.relative_offset_file_metadata
           /\ res.ret.file_data_offset =
                offset_table_3 + img.relative_offset_file_data
           /\ res.ret.root_at = res.ret.dir_metadata_part_offset
           /\ res.ret.first_dir_metadata.name = <<>>
    ELSE res.ret.kind = "Err" /\ res.ret.err = "ReadError"

\* C33: no call takes the mutex while it holds it, and every call has
\* released it when it returns, with a result or with an error; so the
\* threads never wait on each other for ever: a thread that waits for the
\* lock waits for a thread that is running under it, and under fair
\* scheduling every call returns.
C33_NoDeadlock ==
  /\ [](\A t \in Threads :
          /\ thr[t].pc \in {"idle", "lock", "ret"} => mutex.holder # t
          /\ thr[t].pc = "lock" =>
                \/ mutex.holder = "-"
                \/ thr[mutex.holder].pc = "held")
  /\ \A t \in Threads : thr[t].pc = "lock" ~> thr[t].pc = "ret"

\* t2 waits for the lock while t1 holds it in a lookup that is about to
\* return an error
C33_Witness ==
  /\ thr # NoThreads
  /\ thr["t2"].pc = "lock"
  /\ thr["t1"].pc = "held" /\ thr["t1"].ret.kind = "Err"
  /\ mutex.holder = "t1"

\* C34: listing and lookup agree: get_child(dir, name) succeeds for every
\* name that list_child(dir) returns, with a child of that name, a directory
\* when the name is in dir's subdirectory chain and a file when it is in the
\* file chain only; and it fails for every name list_child(dir) does not
\* return.
C34_ListLookup ==
  res.op = "get_child" =>
    \E listed \in {list_child(DirArg(res.path[1]), 0)} :
       IF \E n \in 1..Len(listed.names) : listed.names[n] = res.arg.name
         THEN IF DirsNamed(res.path[1], res.arg.name) # {}
                THEN /\ res.ret.kind = "Dir"
                     /\ res.ret.meta.name = <<res.arg.name>>
              ELSE /\ res.ret.kind = "File"
                   /\ res.ret.meta.name = res.arg.name
       ELSE res.ret.kind = "Err"

\* C35: with a Partition B over a Partition A, a seek on B that returns the
\* offset k leaves the source at A.start + B.start + k; a read on B that
\* returns n has read the n bytes of the source from where the source stood,
\* and every byte it has read lies in B's window and in A's window.
C35_Compose ==
  /\ (res.who = "B" /\ res.op = "seek" /\ res.ret.kind = "Ok") =>
        file = pipe.ws[1].start + pipe.ws[2].start + res.ret.val
  /\ (res.who = "B" /\ res.op = "read" /\ res.ret.kind = "Ok") =>
        /\ Len(res.ret.seen) = res.ret.val
        /\ \A i \in 1..Len(res.ret.seen) :
              /\ res.ret.seen[i] = res.before + i - 1
              /\ res.ret.seen[i] >= pipe.ws[1].start + pipe.ws[2].start
              /\ res.ret.seen[i] < pipe.ws[1].start + pipe.ws[2].end
              /\ res.ret.seen[i] >= pipe.ws[1].start
              /\ res.ret.seen[i] < pipe.ws[1].end

====
